---- MODULE Spec2Model ----
(***************************************************************************)
(* Extruder axis of Smoothieware (src/modules/tools/extruder/Extruder.cpp) *)
(* as a state machine: the per-block OFF / SOLO / FOLLOW mode, the block   *)
(* take / release handshake, the fractional-step carry, the angle          *)
(* optimizer, the speed servo, the firmware retract with its Z lift, the   *)
(* homing sweep and its halt, the save / restore of the position, and the  *)
(* speed-change callback taken statement by statement.                     *)
(*                                                                         *)
(* Numbers.  The C++ code computes in float.  Here every real quantity     *)
(* (angles in degrees, distances in mm, feed rates, stepper speeds) is the *)
(* exact rational value * Scale held in an integer.  The steps per mm, the *)
(* steps per angle and the angles offered are chosen so that every product *)
(* and quotient the code forms is exact in the model: powers of two with   *)
(* angles on a quarter-degree grid, or 10 and 5 with whole degrees.  Float *)
(* rounding is not modelled.                                               *)
(***************************************************************************)
EXTENDS Integers, Sequences, FiniteSets, TLC

(***************************************************************************)
(* Program constants                                                       *)
(***************************************************************************)
OFF == 0
SOLO == 1
FOLLOW == 2

FIRST_CASE == 0
SECOND_CASE == 1
THIRD_CASE == 2
FOURTH_CASE == 3

NULL == 0

(***************************************************************************)
(* Bounds of the model                                                     *)
(***************************************************************************)
ScaleBits == 6               \* binary digits of the fixed point after the point
NumBlocks == 2               \* blocks of the shared queue that are told apart
MaxTaken == 2                \* block-begin is not offered beyond this many unreleased claims
MaxBlocksBegun == 3          \* length of a run of block-begins in the step-carry specification
MaxBackAngle == 180          \* block-begin is not offered once current_angle would pass this many degrees below 0

Scale == 2 ^ ScaleBits       \* fixed-point denominator of the reals
Blocks == 1..NumBlocks
Deg(a) == a * Scale          \* a whole number of degrees / mm as a model real
Full == Deg(360)

VARIABLES
    \* Extruder fields
    enabled, mode, current_block,
    current_position, current_angle, target_position, target_angle,
    previous_angle, travel_distance, travel_ratio, unstepped_distance,
    steps_per_millimeter, steps_per_angle, absolute_mode, milestone_absolute_mode,
    feed_rate, acceleration, en_pin, volumetric_multiplier, extruder_multiplier,
    identifier,
    \* StepperMotor of the axis
    moving, direction_bit, steps_to_move, steps_per_second, moved_last_block, max_rate,
    \* Block::times_taken, counting the takes of this axis only
    times_taken,
    \* kernel
    acceleration_ticks_per_second,
    \* firmware retract
    retracted, cancel_zlift_restore, retract_zlift_length,
    \* the snapshot of on_set_public_data and the milestone of check_max_speeds
    saved_current_position, saved_absolute_mode, milestone_last_position,
    \* do_home: where the routine stands, its locals, and Kernel::is_halted
    home_pc, current_search_angle, sensor_value, home_angle, halted,
    \* on_speed_change taken statement by statement: where it stands, the
    \* current_block its guard read, and whether it went on without a block
    speed_pc, speed_block, stale_use,
    \* the calls the last on_gcode_received made to the conveyor and the robot
    received,
    \* observation of the run
    event, consumed, diff_case, input_seen, previous_seen, begun, sum_travel, sum_stepped,
    command, z_moved, lift_made, z_between,
    sensor_peak, sensor_width, position_steps, sweep_moves, sampled_at,
    halt_moves, entry_position, save_seen, position_at_save, mode_at_save

axisVars == <<enabled, mode, current_block, current_position, current_angle,
              target_position, target_angle, previous_angle, travel_distance,
              travel_ratio, unstepped_distance, steps_per_millimeter,
              steps_per_angle, absolute_mode, milestone_absolute_mode,
              feed_rate, acceleration, en_pin, volumetric_multiplier,
              extruder_multiplier, identifier>>
stepperVars == <<moving, direction_bit, steps_to_move, steps_per_second,
                 moved_last_block, max_rate>>
kernelVars == <<acceleration_ticks_per_second>>
optVars == <<diff_case, input_seen, previous_seen>>
carryVars == <<begun, sum_travel, sum_stepped>>
obsVars == <<event, consumed>>
retractVars == <<retracted, cancel_zlift_restore, retract_zlift_length>>
savedVars == <<saved_current_position, saved_absolute_mode, milestone_last_position>>
saveObs == <<save_seen, position_at_save, mode_at_save>>
raceVars == <<speed_pc, speed_block, stale_use>>
homeVars == <<home_pc, current_search_angle, sensor_value, home_angle, halted>>
recvObs == <<command, z_moved, lift_made, z_between>>
homeObs == <<sensor_peak, sensor_width, position_steps, sweep_moves, sampled_at,
             halt_moves, entry_position>>
vars == <<axisVars, stepperVars, times_taken, kernelVars, obsVars, optVars, carryVars,
          retractVars, homeVars, savedVars, received, recvObs, homeObs, saveObs, raceVars>>

(***************************************************************************)
(* Arithmetic helpers                                                      *)
(***************************************************************************)
Abs(x) == IF x < 0 THEN -x ELSE x
Min(a, b) == IF a < b THEN a ELSE b
\* floorf of the real held in x
Floor(x) == x \div Scale

\* Gcode::has_letter / get_value / get_num_args over the record of a command
has_letter(gcode, c) == c \in DOMAIN gcode.args
get_value(gcode, c) == gcode.args[c]
get_num_args(gcode) == Cardinality(DOMAIN gcode.args)

MCode(n, a) == [has_m |-> TRUE, m |-> n, has_g |-> FALSE, g |-> 0, args |-> a, millimeters_of_travel |-> 0]
GCode(n, a, t) == [has_m |-> FALSE, m |-> 0, has_g |-> TRUE, g |-> n, args |-> a, millimeters_of_travel |-> t]
NoArgs == [c \in {} |-> 0]
Arg(c, v) == [x \in {c} |-> v]

\* millimeters_of_travel is held in units of 1/TravelScale mm; the SOLO test
\* compares it with 0.00001 mm, which is TravelEpsilon units
TravelScale == 200000
TravelEpsilon == 2

(***************************************************************************)
(* Extruder::distance_to_angle, angle_to_distance, getNextEdgeAngle        *)
(***************************************************************************)
distance_to_angle(dist) == (dist * steps_per_millimeter) \div steps_per_angle
angle_to_distance(angle) == (angle * steps_per_angle) \div steps_per_millimeter

\* the edge a quarter of a turn on, not half a turn
getNextEdgeAngle_quarter(angle) ==
    LET resAngle == Deg(90) + angle
    IN  IF resAngle >= Full THEN resAngle - Full ELSE resAngle

getNextEdgeAngle(angle) ==
    LET resAngle == Deg(180) + angle
    IN  IF resAngle >= Full THEN resAngle - Full ELSE resAngle

(***************************************************************************)
(* Extruder::optimize_angle.  It returns 0 on every path; what it computes *)
(* is left in travel_distance and previous_angle.  The record holds the    *)
(* return value, the two fields as the call leaves them, and the local     *)
(* diff_case (-1 on the early return, where it is never computed).         *)
(***************************************************************************)
MAX_ANGLE_LIMIT == 360
MIN_ANGLE_LIMIT == 0

\* input_angle = (input_angle/MAX_ANGLE_LIMIT)*MAX_ANGLE_LIMIT, a float quotient
\* multiplied back: the product is formed first so that the quotient is exact
limit_angle(input_angle) ==
    IF Deg(MAX_ANGLE_LIMIT) < input_angle \/ input_angle < Deg(MIN_ANGLE_LIMIT)
    THEN (input_angle * MAX_ANGLE_LIMIT) \div MAX_ANGLE_LIMIT
    ELSE input_angle

\* abs here is the float overload: the differences are not truncated
rotation_distance(previous, input_angle) ==
    << Abs(previous - input_angle),
       Abs(Full - Abs(previous - input_angle)),
       Abs(getNextEdgeAngle(previous) - input_angle),
       Abs(Full - Abs(getNextEdgeAngle(previous) - input_angle)) >>

\* the last of the smallest elements
min_element_last(seq) ==
    CHOOSE i \in 1..Len(seq) :
        /\ \A j \in 1..Len(seq) : seq[i] <= seq[j]
        /\ \A j \in (i + 1)..Len(seq) : seq[j] > seq[i]

\* std::min_element: the first of the smallest elements (1-based position)
min_element(seq) ==
    CHOOSE i \in 1..Len(seq) :
        /\ \A j \in 1..Len(seq) : seq[i] <= seq[j]
        /\ \A j \in 1..(i - 1) : seq[j] > seq[i]

\* every case travels the direct difference
case_travel_distance_direct(case, previous, input_angle) ==
    angle_to_distance(input_angle - previous)

\* the second and fourth case without their sign rule
case_travel_distance_unsigned(case, previous, input_angle) ==
    LET dist == rotation_distance(previous, input_angle)[case + 1]
        edge == getNextEdgeAngle(previous)
    IN  CASE case = FIRST_CASE -> angle_to_distance(input_angle - previous)
          [] case = SECOND_CASE -> angle_to_distance(dist)
          [] case = THIRD_CASE -> angle_to_distance(input_angle - edge)
          [] case = FOURTH_CASE -> angle_to_distance(dist)

case_travel_distance(case, previous, input_angle) ==
    LET dist == rotation_distance(previous, input_angle)[case + 1]
        edge == getNextEdgeAngle(previous)
    IN  CASE case = FIRST_CASE -> angle_to_distance(input_angle - previous)
          [] case = SECOND_CASE ->
                IF (previous - input_angle) < 0
                THEN angle_to_distance(dist) * (-1)
                ELSE angle_to_distance(dist)
          [] case = THIRD_CASE -> angle_to_distance(input_angle - edge)
          [] case = FOURTH_CASE ->
                IF (edge - input_angle) < 0
                THEN angle_to_distance(dist) * (-1)
                ELSE angle_to_distance(dist)

\* previous_angle follows the input also when the winning candidate is zero
optimize_angle_always_updates(arg) ==
    LET normalized == IF arg < 0 THEN Full + arg ELSE arg
    IN  IF normalized = previous_angle
        THEN [result |-> 0, travel_distance |-> 0,
              previous_angle |-> previous_angle, diff_case |-> -1]
        ELSE
          LET input_angle == limit_angle(normalized)
              dist == rotation_distance(previous_angle, input_angle)
              case == min_element(dist) - 1
          IN  IF dist[case + 1] = 0
              THEN [result |-> 0, travel_distance |-> 0,
                    previous_angle |-> input_angle, diff_case |-> case]
              ELSE [result |-> 0,
                    travel_distance |-> case_travel_distance(case, previous_angle, input_angle),
                    previous_angle |-> input_angle, diff_case |-> case]

optimize_angle(arg) ==
    LET normalized == IF arg < 0 THEN Full + arg ELSE arg
    IN  IF normalized = previous_angle
        THEN [result |-> 0, travel_distance |-> 0,
              previous_angle |-> previous_angle, diff_case |-> -1]
        ELSE
          LET input_angle == limit_angle(normalized)
              dist == rotation_distance(previous_angle, input_angle)
              case == min_element(dist) - 1
          IN  IF dist[case + 1] = 0
              THEN [result |-> 0, travel_distance |-> 0,
                    previous_angle |-> previous_angle, diff_case |-> case]
              ELSE [result |-> 0,
                    travel_distance |-> case_travel_distance(case, previous_angle, input_angle),
                    previous_angle |-> input_angle, diff_case |-> case]

(***************************************************************************)
(* Extruder::on_gcode_execute                                              *)
(***************************************************************************)
seconds_per_minute == 60

\* the mode reset placed after the M-code switch: an M code leaves the mode
execute_mode_sticky(gcode) ==
    IF gcode.has_m THEN mode
    ELSE IF gcode.has_g /\ (gcode.g = 90 \/ gcode.g = 91) THEN OFF
    ELSE IF gcode.has_g /\ enabled /\ gcode.g # 92 /\ gcode.g <= 3 /\ has_letter(gcode, "E")
         THEN IF Abs(gcode.millimeters_of_travel) < TravelEpsilon THEN SOLO ELSE FOLLOW
    ELSE OFF

\* the mode a command leaves behind (mode = OFF first, then the branches)
execute_mode(gcode) ==
    IF gcode.has_m THEN OFF
    ELSE IF gcode.has_g /\ (gcode.g = 90 \/ gcode.g = 91) THEN OFF
    ELSE IF gcode.has_g /\ enabled /\ gcode.g # 92 /\ gcode.g <= 3 /\ has_letter(gcode, "E")
         THEN IF Abs(gcode.millimeters_of_travel) < TravelEpsilon THEN SOLO ELSE FOLLOW
    ELSE OFF

\* feed_rate after an F word on G0..G3
execute_feed_rate(gcode) ==
    LET f == get_value(gcode, "F") \div seconds_per_minute
    IN  IF max_rate > 0 /\ f > max_rate THEN max_rate ELSE f

on_gcode_execute(gcode) ==
    /\ UNCHANGED <<retractVars, homeVars, savedVars, received>>
    /\ mode' = execute_mode(gcode)
    /\ UNCHANGED <<enabled, current_block, steps_per_millimeter, steps_per_angle,
                   milestone_absolute_mode, acceleration, volumetric_multiplier,
                   extruder_multiplier, identifier>>
    /\ UNCHANGED <<stepperVars, times_taken, kernelVars>>
    /\ IF gcode.has_m THEN
          /\ en_pin' = (CASE gcode.m = 17 -> 0
                          [] gcode.m = 18 \/ gcode.m = 84 -> 1
                          [] OTHER -> en_pin)
          /\ absolute_mode' = (CASE gcode.m = 82 -> TRUE
                                 [] gcode.m = 83 -> FALSE
                                 [] OTHER -> absolute_mode)
          /\ UNCHANGED <<current_position, current_angle, target_position, target_angle,
                         previous_angle, travel_distance, travel_ratio,
                         unstepped_distance, feed_rate, optVars>>
       ELSE IF gcode.has_g /\ (gcode.g = 90 \/ gcode.g = 91) THEN
          /\ absolute_mode' = (gcode.g = 90)
          /\ UNCHANGED <<current_position, current_angle, target_position, target_angle,
                         previous_angle, travel_distance, travel_ratio,
                         unstepped_distance, feed_rate, en_pin, optVars>>
       ELSE IF gcode.has_g /\ enabled /\ gcode.g = 92 THEN
          \* G92: reset extruder position
          IF has_letter(gcode, "E") THEN
             LET r == optimize_angle(get_value(gcode, "E"))
             IN  /\ current_angle' = r.result
                 /\ target_angle' = r.result
                 /\ current_position' = angle_to_distance(r.result)
                 /\ target_position' = angle_to_distance(r.result)
                 /\ unstepped_distance' = 0
                 /\ travel_distance' = r.travel_distance
                 /\ previous_angle' = r.previous_angle
                 /\ diff_case' = r.diff_case
                 /\ input_seen' = get_value(gcode, "E")
                 /\ previous_seen' = previous_angle
                 /\ UNCHANGED <<travel_ratio, feed_rate, en_pin, absolute_mode>>
          ELSE IF get_num_args(gcode) = 0 THEN
             /\ current_position' = 0
             /\ target_position' = 0
             /\ current_angle' = 0
             /\ target_angle' = 0
             /\ unstepped_distance' = 0
             /\ UNCHANGED <<previous_angle, travel_distance, travel_ratio, feed_rate,
                            en_pin, absolute_mode, optVars>>
          ELSE
             UNCHANGED <<current_position, current_angle, target_position, target_angle,
                         previous_angle, travel_distance, travel_ratio,
                         unstepped_distance, feed_rate, en_pin, absolute_mode, optVars>>
       ELSE IF gcode.has_g /\ enabled /\ gcode.g <= 3 THEN
          /\ IF has_letter(gcode, "E") THEN
                LET r == optimize_angle(get_value(gcode, "E"))
                    angle == r.result
                    extrusion_distance == angle_to_distance(angle)
                    relative_extrusion_distance ==
                        IF absolute_mode THEN extrusion_distance - target_position
                        ELSE extrusion_distance
                IN  /\ travel_distance' = r.travel_distance
                    /\ previous_angle' = r.previous_angle
                    /\ diff_case' = r.diff_case
                    /\ input_seen' = get_value(gcode, "E")
                    /\ previous_seen' = previous_angle
                    /\ target_position' = (IF absolute_mode THEN extrusion_distance
                                           ELSE target_position + extrusion_distance)
                    /\ target_angle' = (IF absolute_mode THEN angle
                                        ELSE target_angle + angle)
                    /\ travel_ratio' =
                         (IF Abs(gcode.millimeters_of_travel) < TravelEpsilon
                          THEN travel_ratio
                          ELSE (((((relative_extrusion_distance * volumetric_multiplier)
                                     \div Scale) * extruder_multiplier) \div Scale)
                                  * TravelScale)
                               \div gcode.millimeters_of_travel)
                    /\ en_pin' = 0
             ELSE UNCHANGED <<travel_distance, previous_angle, optVars, target_position,
                              target_angle, travel_ratio, en_pin>>
          /\ feed_rate' = (IF has_letter(gcode, "F") THEN execute_feed_rate(gcode)
                           ELSE feed_rate)
          /\ UNCHANGED <<current_position, current_angle, unstepped_distance, absolute_mode>>
       ELSE
          UNCHANGED <<current_position, current_angle, target_position, target_angle,
                      previous_angle, travel_distance, travel_ratio,
                      unstepped_distance, feed_rate, en_pin, absolute_mode, optVars>>

(***************************************************************************)
(* StepperMotor and Block, as the axis uses them                           *)
(***************************************************************************)
\* Block::steps_event_count of block b
steps_event_count(b) == 4 * b

\* Block::millimeters of block b, the length of the primary-axis move
millimeters(b) == Deg(20 * b)

\* StepperMotor::move(direction, steps): the move is under way iff steps > 0
stepper_move(dir, steps) ==
    /\ direction_bit' = dir
    /\ steps_to_move' = steps
    /\ moving' = (steps > 0)

\* Block::take / Block::release on block b
take(b) == [times_taken EXCEPT ![b] = @ + 1]
release(b) == [times_taken EXCEPT ![b] = @ - 1]

(***************************************************************************)
(* Extruder::rate_increase and the speed formulas                          *)
(***************************************************************************)
rate_increase == (acceleration * steps_per_millimeter) \div acceleration_ticks_per_second

target_rate == Floor(feed_rate * steps_per_millimeter)

\* the trapezoid-adjusted rate itself, not scaled by the share of the steps
follow_speed_nominal(rate, steps, b) == rate * Scale

\* trapezoid-adjusted rate * steps_to_move / steps_event_count, as a real
follow_speed(rate, steps, b) == (rate * steps * Scale) \div steps_event_count(b)

(***************************************************************************)
(* Extruder::on_block_begin.  rate is what                                 *)
(* stepper->get_trapezoid_adjusted_rate() returns during the call.         *)
(***************************************************************************)
\* the steps of the travel alone, the carry left out
steps_to_step_of_travel == Abs(Floor(steps_per_millimeter * travel_distance))

\* abs((int)floorf(steps_per_millimeter * (travel_distance + unstepped_distance)))
steps_to_step == Abs(Floor(steps_per_millimeter * (travel_distance + unstepped_distance)))

\* the steps just taken, as a distance: steps_to_step / steps_per_millimeter
stepped_distance == (steps_to_step * Scale) \div steps_per_millimeter

\* the carry accumulated downward whatever the sign of the travel
next_unstepped_distance_one_sign ==
    unstepped_distance + travel_distance - stepped_distance

next_unstepped_distance ==
    IF travel_distance > 0
    THEN unstepped_distance + travel_distance - stepped_distance
    ELSE unstepped_distance + travel_distance + stepped_distance

\* current_angle after the travel is added and wrapped
next_current_angle ==
    LET a == current_angle + distance_to_angle(travel_distance)
    IN  IF a > Full THEN a - Full ELSE a

next_current_position ==
    IF current_angle + distance_to_angle(travel_distance) > Full
    THEN angle_to_distance(next_current_angle)
    ELSE current_position + travel_distance

on_block_begin(block, rate) ==
    /\ UNCHANGED <<retractVars, homeVars, savedVars, received>>
    /\ UNCHANGED <<enabled, mode, target_position, target_angle, previous_angle,
                   travel_distance, travel_ratio, steps_per_millimeter, steps_per_angle,
                   absolute_mode, milestone_absolute_mode, feed_rate, acceleration,
                   en_pin, volumetric_multiplier, extruder_multiplier, identifier>>
    /\ UNCHANGED <<max_rate, kernelVars, optVars>>
    /\ IF ~enabled THEN
          UNCHANGED <<current_block, current_position, current_angle, unstepped_distance,
                      moving, direction_bit, steps_to_move, steps_per_second,
                      moved_last_block, times_taken>>
       ELSE IF mode = OFF THEN
          /\ current_block' = NULL
          /\ moved_last_block' = FALSE
          /\ UNCHANGED <<current_position, current_angle, unstepped_distance,
                         moving, direction_bit, steps_to_move, steps_per_second,
                         times_taken>>
       ELSE
          /\ current_position' = next_current_position
          /\ current_angle' = next_current_angle
          /\ unstepped_distance' = next_unstepped_distance
          /\ IF steps_to_step # 0 THEN
                \* We take the block, we have to release it or everything gets stuck
                /\ times_taken' = take(block)
                /\ current_block' = block
                /\ stepper_move(travel_distance > 0, steps_to_step)
                /\ IF mode = FOLLOW THEN
                      \* on_speed_change(this): every guard holds, the argument is not 0
                      /\ steps_per_second' = follow_speed(rate, steps_to_step, block)
                      /\ moved_last_block' = TRUE
                   ELSE
                      /\ steps_per_second' = Min(target_rate, rate_increase) * Scale
                      /\ moved_last_block' = FALSE
             ELSE
                /\ current_block' = NULL
                /\ moved_last_block' = FALSE
                /\ UNCHANGED <<moving, direction_bit, steps_to_move, steps_per_second,
                               times_taken>>

(***************************************************************************)
(* Extruder::on_block_end                                                  *)
(***************************************************************************)
on_block_end ==
    /\ UNCHANGED <<retractVars, homeVars, savedVars, received>>
    /\ current_block' = (IF enabled THEN NULL ELSE current_block)
    /\ UNCHANGED <<enabled, mode, current_position, current_angle, target_position,
                   target_angle, previous_angle, travel_distance, travel_ratio,
                   unstepped_distance, steps_per_millimeter, steps_per_angle,
                   absolute_mode, milestone_absolute_mode, feed_rate, acceleration,
                   en_pin, volumetric_multiplier, extruder_multiplier, identifier>>
    /\ UNCHANGED <<stepperVars, times_taken, kernelVars, optVars>>

(***************************************************************************)
(* Extruder::acceleration_tick                                             *)
(***************************************************************************)
\* the tick does not look at current_block
acceleration_tick_between_blocks ==
    /\ UNCHANGED <<retractVars, homeVars, savedVars, received>>
    /\ UNCHANGED <<axisVars, times_taken, kernelVars, optVars>>
    /\ UNCHANGED <<moving, direction_bit, steps_to_move, moved_last_block, max_rate>>
    /\ IF ~enabled \/ mode # SOLO \/ ~moving
       THEN UNCHANGED steps_per_second
       ELSE LET current_rate == Floor(steps_per_second)
            IN  IF current_rate < target_rate
                THEN steps_per_second' = Min(target_rate, current_rate + rate_increase) * Scale
                ELSE UNCHANGED steps_per_second

acceleration_tick ==
    /\ UNCHANGED <<retractVars, homeVars, savedVars, received>>
    /\ UNCHANGED <<axisVars, times_taken, kernelVars, optVars>>
    /\ UNCHANGED <<moving, direction_bit, steps_to_move, moved_last_block, max_rate>>
    /\ IF ~enabled \/ mode # SOLO \/ current_block = NULL \/ ~moving
       THEN UNCHANGED steps_per_second
       ELSE LET current_rate == Floor(steps_per_second)
            IN  IF current_rate < target_rate
                THEN steps_per_second' = Min(target_rate, current_rate + rate_increase) * Scale
                ELSE UNCHANGED steps_per_second

(***************************************************************************)
(* Extruder::on_speed_change.  argument = 0 is the flush of the queue;     *)
(* rate is stepper->get_trapezoid_adjusted_rate().                         *)
(***************************************************************************)
\* the flush releases the block and keeps the reference to it
flush_current_block_kept == current_block

\* this->current_block = NULL, after the release of the flush
flush_current_block == NULL

\* the guard does not look at mode
on_speed_change_any_mode(argument, rate) ==
    /\ UNCHANGED <<retractVars, homeVars, savedVars, received>>
    /\ UNCHANGED <<enabled, mode, current_position, current_angle, target_position,
                   target_angle, previous_angle, travel_distance, travel_ratio,
                   unstepped_distance, steps_per_millimeter, steps_per_angle,
                   absolute_mode, milestone_absolute_mode, feed_rate, acceleration,
                   en_pin, volumetric_multiplier, extruder_multiplier, identifier>>
    /\ UNCHANGED <<moved_last_block, max_rate, kernelVars, optVars>>
    /\ IF ~enabled \/ current_block = NULL \/ ~moving THEN
          UNCHANGED <<current_block, moving, direction_bit, steps_to_move,
                      steps_per_second, times_taken>>
       ELSE IF argument = 0 THEN
          /\ stepper_move(FALSE, 0)
          /\ times_taken' = release(current_block)
          /\ current_block' = flush_current_block
          /\ UNCHANGED steps_per_second
       ELSE
          /\ steps_per_second' = follow_speed(rate, steps_to_move, current_block)
          /\ UNCHANGED <<current_block, moving, direction_bit, steps_to_move, times_taken>>

on_speed_change(argument, rate) ==
    /\ UNCHANGED <<retractVars, homeVars, savedVars, received>>
    /\ UNCHANGED <<enabled, mode, current_position, current_angle, target_position,
                   target_angle, previous_angle, travel_distance, travel_ratio,
                   unstepped_distance, steps_per_millimeter, steps_per_angle,
                   absolute_mode, milestone_absolute_mode, feed_rate, acceleration,
                   en_pin, volumetric_multiplier, extruder_multiplier, identifier>>
    /\ UNCHANGED <<moved_last_block, max_rate, kernelVars, optVars>>
    /\ IF ~enabled \/ current_block = NULL \/ mode # FOLLOW \/ ~moving THEN
          UNCHANGED <<current_block, moving, direction_bit, steps_to_move,
                      steps_per_second, times_taken>>
       ELSE IF argument = 0 THEN
          /\ stepper_move(FALSE, 0)
          /\ times_taken' = release(current_block)
          /\ current_block' = flush_current_block
          /\ UNCHANGED steps_per_second
       ELSE
          /\ steps_per_second' = follow_speed(rate, steps_to_move, current_block)
          /\ UNCHANGED <<current_block, moving, direction_bit, steps_to_move, times_taken>>

(***************************************************************************)
(* Extruder::on_speed_change taken statement by statement, for the runs in *)
(* which another callback comes between its guard and what follows.  The   *)
(* guard reads current_block; the statements after it read the field       *)
(* again, or use the value the guard read when the compiler kept it in a   *)
(* register (the field is not volatile and nothing orders the accesses).   *)
(* Calling through a NULL current_block is recorded in stale_use.          *)
(***************************************************************************)
on_speed_change_guard(argument) ==
    /\ speed_pc = "idle"
    /\ UNCHANGED <<axisVars, stepperVars, times_taken, kernelVars, optVars, retractVars,
                   homeVars, savedVars, received, stale_use>>
    /\ IF ~enabled \/ current_block = NULL \/ mode # FOLLOW \/ ~moving
       THEN UNCHANGED <<speed_pc, speed_block>>
       ELSE /\ speed_pc' = (IF argument = 0 THEN "flush" ELSE "update")
            /\ speed_block' = current_block

on_speed_change_body(rate) ==
    /\ speed_pc \in {"flush", "update"}
    /\ speed_pc' = "idle"
    /\ speed_block' = NULL
    /\ UNCHANGED <<enabled, mode, current_position, current_angle, target_position,
                   target_angle, previous_angle, travel_distance, travel_ratio,
                   unstepped_distance, steps_per_millimeter, steps_per_angle,
                   absolute_mode, milestone_absolute_mode, feed_rate, acceleration,
                   en_pin, volumetric_multiplier, extruder_multiplier, identifier>>
    /\ UNCHANGED <<moved_last_block, max_rate, kernelVars, optVars, retractVars,
                   homeVars, savedVars, received>>
    /\ \E used \in {current_block, speed_block} :
          /\ stale_use' = (stale_use \/ used = NULL)
          /\ IF speed_pc = "flush" THEN
                /\ stepper_move(FALSE, 0)
                /\ times_taken' = (IF used = NULL THEN times_taken ELSE release(used))
                /\ current_block' = flush_current_block
                /\ UNCHANGED steps_per_second
             ELSE
                /\ steps_per_second' =
                      (IF used = NULL THEN steps_per_second
                       ELSE follow_speed(rate, steps_to_move, used))
                /\ UNCHANGED <<current_block, moving, direction_bit, steps_to_move,
                               times_taken>>

(***************************************************************************)
(* Extruder::stepper_motor_finished_move, called by the stepper when the   *)
(* programmed move is done (the stepper is then no longer moving).         *)
(***************************************************************************)
stepper_motor_finished_move ==
    /\ UNCHANGED <<retractVars, homeVars, savedVars, received>>
    /\ moving' = FALSE
    /\ UNCHANGED <<enabled, mode, current_position, current_angle, target_position,
                   target_angle, previous_angle, travel_distance, travel_ratio,
                   unstepped_distance, steps_per_millimeter, steps_per_angle,
                   absolute_mode, milestone_absolute_mode, feed_rate, acceleration,
                   en_pin, volumetric_multiplier, extruder_multiplier, identifier>>
    /\ UNCHANGED <<direction_bit, steps_to_move, steps_per_second, moved_last_block,
                   max_rate, kernelVars, optVars>>
    /\ IF enabled /\ current_block # NULL
       THEN /\ times_taken' = release(current_block)
            /\ current_block' = NULL
       ELSE UNCHANGED <<current_block, times_taken>>

(***************************************************************************)
(* Extruder::on_gcode_received, the M92 branch (steps per mm)              *)
(***************************************************************************)
addressed(gcode) ==
    \/ (enabled /\ ~has_letter(gcode, "P"))
    \/ (has_letter(gcode, "P") /\ get_value(gcode, "P") = identifier)

on_gcode_received_M92(gcode) ==
    /\ UNCHANGED <<retractVars, homeVars, savedVars>>
    /\ received' = <<>>
    /\ gcode.has_m /\ gcode.m = 92
    /\ steps_per_millimeter' =
          (IF addressed(gcode) /\ has_letter(gcode, "E")
           THEN get_value(gcode, "E") ELSE steps_per_millimeter)
    /\ UNCHANGED <<enabled, mode, current_block, current_position, current_angle,
                   target_position, target_angle, previous_angle, travel_distance,
                   travel_ratio, unstepped_distance, steps_per_angle, absolute_mode,
                   milestone_absolute_mode, feed_rate, acceleration, en_pin,
                   volumetric_multiplier, extruder_multiplier, identifier>>
    /\ UNCHANGED <<stepperVars, times_taken, kernelVars, optVars>>

(***************************************************************************)
(* Extruder::on_gcode_received, the M207 branch (retract settings); only   *)
(* the Z word, the length of the Z lift, is kept.                          *)
(***************************************************************************)
on_gcode_received_M207(gcode) ==
    /\ gcode.has_m /\ gcode.m = 207
    /\ retract_zlift_length' =
          (IF addressed(gcode) /\ has_letter(gcode, "Z")
           THEN get_value(gcode, "Z") ELSE retract_zlift_length)
    /\ received' = <<>>
    /\ UNCHANGED <<axisVars, stepperVars, times_taken, kernelVars, optVars, homeVars,
                   savedVars, retracted, cancel_zlift_restore>>

(***************************************************************************)
(* Extruder::on_gcode_received, the G codes other than G28.  received      *)
(* lists, in the order they are made, the calls to                         *)
(* conveyor->append_gcode, conveyor->queue_head_block and                  *)
(* robot->on_gcode_received (the synthesized relative Z move).             *)
(***************************************************************************)
append_gcode(gcode) == [call |-> "append_gcode", arg |-> gcode.g]
queue_head_block == [call |-> "queue_head_block", arg |-> 0]
robot_on_gcode_received(z) == [call |-> "robot_on_gcode_received", arg |-> z]

\* Gcodes to pass along to on_gcode_execute
is_passed_along(gcode) ==
    \/ (gcode.g = 92 /\ has_letter(gcode, "E"))
    \/ (gcode.g = 90 \/ gcode.g = 91)

is_solo_move(gcode) ==
    /\ ~is_passed_along(gcode)
    /\ enabled /\ gcode.g < 4 /\ has_letter(gcode, "E")
    /\ Abs(gcode.millimeters_of_travel) < TravelEpsilon

\* firmware retract command (ignored if it has an L parameter)
is_retract_command(gcode) ==
    /\ ~is_passed_along(gcode) /\ ~is_solo_move(gcode)
    /\ enabled /\ (gcode.g = 10 \/ gcode.g = 11) /\ ~has_letter(gcode, "L")

is_z_move_while_retracted(gcode) ==
    /\ ~is_passed_along(gcode) /\ ~is_solo_move(gcode) /\ ~is_retract_command(gcode)
    /\ enabled /\ retracted /\ (gcode.g = 0 \/ gcode.g = 1) /\ has_letter(gcode, "Z")

\* every retract command is taken for a fresh one
is_duplicate_never(gcode) == FALSE

\* the state of retract does not fit the command: ignore duplicates
is_duplicate(gcode) ==
    ~((gcode.g = 10 /\ ~retracted) \/ (gcode.g = 11 /\ retracted))

\* reverse zlift happens before unretract, unless cancel_zlift_restore is set
restore_zlift(gcode) ==
    retract_zlift_length > 0 /\ gcode.g = 11 /\ ~cancel_zlift_restore

\* the zlift is synthesized before the retract is appended
retract_calls_zlift_first(gcode) ==
    (IF retract_zlift_length > 0 /\ gcode.g = 10
     THEN <<robot_on_gcode_received(retract_zlift_length)>> ELSE <<>>)
    \o (IF restore_zlift(gcode)
        THEN <<robot_on_gcode_received(-retract_zlift_length)>> ELSE <<>>)
    \o <<append_gcode(gcode), queue_head_block>>

\* the calls of an accepted retract or un-retract, in their order
retract_calls(gcode) ==
    (IF restore_zlift(gcode)
     THEN <<robot_on_gcode_received(-retract_zlift_length)>> ELSE <<>>)
    \o <<append_gcode(gcode), queue_head_block>>
    \o (IF retract_zlift_length > 0 /\ gcode.g = 10
        THEN <<robot_on_gcode_received(retract_zlift_length)>> ELSE <<>>)

on_gcode_received_G(gcode) ==
    /\ gcode.has_g /\ ~gcode.has_m /\ gcode.g # 28
    /\ UNCHANGED <<enabled, mode, current_block, current_position, current_angle,
                   target_position, target_angle, previous_angle, travel_distance,
                   travel_ratio, unstepped_distance, steps_per_millimeter,
                   steps_per_angle, absolute_mode, feed_rate, acceleration, en_pin,
                   volumetric_multiplier, extruder_multiplier, identifier>>
    /\ UNCHANGED <<stepperVars, times_taken, kernelVars, optVars, homeVars,
                   retract_zlift_length, saved_current_position, saved_absolute_mode>>
    /\ IF is_retract_command(gcode) THEN
          IF is_duplicate(gcode) THEN
             \* return: ignore duplicates
             /\ received' = <<>>
             /\ UNCHANGED <<retracted, cancel_zlift_restore, milestone_absolute_mode,
                            milestone_last_position>>
          ELSE
             /\ retracted' = (gcode.g = 10)
             /\ cancel_zlift_restore' = (IF gcode.g = 10 THEN FALSE
                                          ELSE cancel_zlift_restore)
             /\ received' = retract_calls(gcode)
             /\ UNCHANGED <<milestone_absolute_mode, milestone_last_position>>
       ELSE
          /\ received' = (IF is_passed_along(gcode) THEN <<append_gcode(gcode)>>
                          ELSE IF is_solo_move(gcode)
                               THEN <<append_gcode(gcode), queue_head_block>>
                          ELSE <<>>)
          /\ cancel_zlift_restore' = (IF is_z_move_while_retracted(gcode) THEN TRUE
                                       ELSE cancel_zlift_restore)
          /\ milestone_absolute_mode' = (CASE gcode.g = 90 -> TRUE
                                           [] gcode.g = 91 -> FALSE
                                           [] OTHER -> milestone_absolute_mode)
          /\ milestone_last_position' =
                (IF gcode.g = 92 /\ enabled /\ has_letter(gcode, "E")
                 THEN get_value(gcode, "E")
                 ELSE IF gcode.g = 92 /\ enabled /\ get_num_args(gcode) = 0 THEN 0
                 ELSE milestone_last_position)
          /\ UNCHANGED retracted

(***************************************************************************)
(* Extruder::on_gcode_received, G28, and Extruder::do_home.  do_home       *)
(* blocks the caller in busy-wait loops while the stepper runs from its    *)
(* interrupt, so it is a sequence of steps: home_pc is "idle" outside the  *)
(* routine, "sweep" at the test of the sweep loop, "sweep_wait" and        *)
(* "final_wait" in the two busy-wait loops.                                *)
(***************************************************************************)
DEGREE_OF_CYCLE == 360
RAW_SEARCH_ANGLE == 10

\* the angle of the axis since the routine began, from the steps done
physical_angle == ((position_steps * Scale) \div steps_per_angle) % Full

\* AngleSensor::get_raw_value: the ADC reads high over the arc of sensor_width
\* that begins at sensor_peak, and low elsewhere
get_raw_value ==
    IF (physical_angle - sensor_peak) % Full <= sensor_width THEN 3000 ELSE 500

\* the last of the largest elements
max_element_last(seq) ==
    CHOOSE i \in 1..Len(seq) :
        /\ \A j \in 1..Len(seq) : seq[j] <= seq[i]
        /\ \A j \in (i + 1)..Len(seq) : seq[j] < seq[i]

\* std::max_element: the first of the largest elements (1-based position)
max_element(seq) ==
    CHOOSE i \in 1..Len(seq) :
        /\ \A j \in 1..Len(seq) : seq[j] <= seq[i]
        /\ \A j \in 1..(i - 1) : seq[j] < seq[i]

\* the resets at the end of case 28
g28_reset ==
    /\ target_position' = 0 /\ current_position' = 0
    /\ target_angle' = 0 /\ current_angle' = 0
    /\ unstepped_distance' = 0
    /\ travel_ratio' = 0 /\ travel_distance' = 0
    /\ saved_current_position' = 0

homeFrame == <<enabled, mode, current_block, previous_angle, steps_per_millimeter,
               steps_per_angle, absolute_mode, milestone_absolute_mode, feed_rate,
               acceleration, en_pin, volumetric_multiplier, extruder_multiplier,
               identifier, max_rate, times_taken, kernelVars, optVars, retractVars,
               saved_absolute_mode, milestone_last_position>>

on_gcode_received_G28(gcode) ==
    /\ gcode.has_g /\ ~gcode.has_m /\ gcode.g = 28
    /\ home_pc = "idle"
    /\ received' = <<>>
    /\ UNCHANGED <<homeFrame, home_angle, halted, moving, direction_bit, steps_to_move>>
    /\ IF has_letter(gcode, "E") THEN
          \* do_home: prepare motor
          /\ current_angle' = 0
          /\ current_search_angle' = 0
          /\ sensor_value' = <<>>
          /\ steps_per_second' = Deg(10000)
          /\ moved_last_block' = TRUE
          /\ home_pc' = "sweep"
          /\ UNCHANGED <<target_position, current_position, target_angle,
                         unstepped_distance, travel_ratio, travel_distance,
                         saved_current_position>>
       ELSE
          /\ g28_reset
          /\ UNCHANGED <<current_search_angle, sensor_value, steps_per_second,
                         moved_last_block, home_pc>>

\* a turn of the sweep loop that does not advance current_search_angle
do_home_sweep_no_advance ==
    /\ home_pc = "sweep"
    /\ current_search_angle <= Deg(DEGREE_OF_CYCLE)
    /\ stepper_move(TRUE, RAW_SEARCH_ANGLE * steps_per_angle)
    /\ current_search_angle' = current_search_angle
    /\ sensor_value' = Append(sensor_value, get_raw_value)
    /\ home_pc' = "sweep_wait"
    /\ UNCHANGED <<homeFrame, home_angle, halted, received, steps_per_second,
                   moved_last_block, target_position, current_position, target_angle,
                   current_angle, unstepped_distance, travel_ratio, travel_distance,
                         saved_current_position>>

\* one turn of the sweep loop up to its busy-wait
do_home_sweep ==
    /\ home_pc = "sweep"
    /\ current_search_angle <= Deg(DEGREE_OF_CYCLE)
    /\ stepper_move(TRUE, RAW_SEARCH_ANGLE * steps_per_angle)
    /\ current_search_angle' = current_search_angle + Deg(RAW_SEARCH_ANGLE)
    /\ sensor_value' = Append(sensor_value, get_raw_value)
    /\ home_pc' = "sweep_wait"
    /\ UNCHANGED <<homeFrame, home_angle, halted, received, steps_per_second,
                   moved_last_block, target_position, current_position, target_angle,
                   current_angle, unstepped_distance, travel_ratio, travel_distance,
                         saved_current_position>>

\* the sweep loop is left: the peak is looked up and the last move programmed
do_home_set_zero ==
    /\ home_pc = "sweep"
    /\ ~(current_search_angle <= Deg(DEGREE_OF_CYCLE))
    /\ home_angle' = (max_element(sensor_value) - 1) * Deg(RAW_SEARCH_ANGLE)
    /\ stepper_move(TRUE, Floor(home_angle' * steps_per_angle))
    /\ home_pc' = "final_wait"
    /\ UNCHANGED <<homeFrame, current_search_angle, sensor_value, halted, received,
                   steps_per_second, moved_last_block, target_position,
                   current_position, target_angle, current_angle, unstepped_distance,
                   travel_ratio, travel_distance,
                         saved_current_position>>

\* a halt leaves the busy-wait loop only, and the routine goes on
do_home_wait_break ==
    /\ home_pc \in {"sweep_wait", "final_wait"}
    /\ ~moving \/ halted
    /\ UNCHANGED <<homeFrame, current_search_angle, sensor_value, home_angle, halted,
                   received, stepperVars>>
    /\ IF home_pc = "final_wait" THEN
          /\ home_pc' = "idle"
          /\ g28_reset
       ELSE
          /\ home_pc' = "sweep"
          /\ UNCHANGED <<target_position, current_position, target_angle,
                         current_angle, unstepped_distance, travel_ratio,
                         travel_distance,
                         saved_current_position>>

\* a busy-wait loop is left: the move is over, or the kernel is halted and
\* do_home returns; after the return case 28 goes on to its resets
do_home_wait ==
    /\ home_pc \in {"sweep_wait", "final_wait"}
    /\ ~moving \/ halted
    /\ UNCHANGED <<homeFrame, current_search_angle, sensor_value, home_angle, halted,
                   received, stepperVars>>
    /\ IF moving \/ home_pc = "final_wait" THEN
          /\ home_pc' = "idle"
          /\ g28_reset
       ELSE
          /\ home_pc' = "sweep"
          /\ UNCHANGED <<target_position, current_position, target_angle,
                         current_angle, unstepped_distance, travel_ratio,
                         travel_distance,
                         saved_current_position>>

\* Kernel::is_halted becomes true
kernel_halt ==
    /\ ~halted
    /\ halted' = TRUE
    /\ UNCHANGED <<axisVars, stepperVars, times_taken, kernelVars, optVars, retractVars,
                   savedVars, home_pc, current_search_angle, sensor_value, home_angle, received>>

(***************************************************************************)
(* Extruder::on_set_public_data, the save_state and restore_state          *)
(* requests.  Neither looks at enabled.                                    *)
(***************************************************************************)
on_set_public_data(request) ==
    /\ request \in {"save_state", "restore_state"}
    /\ UNCHANGED <<enabled, mode, current_block, current_angle, target_position,
                   target_angle, previous_angle, travel_distance, travel_ratio,
                   unstepped_distance, steps_per_millimeter, steps_per_angle, feed_rate,
                   acceleration, en_pin, volumetric_multiplier, extruder_multiplier,
                   identifier>>
    /\ UNCHANGED <<stepperVars, times_taken, kernelVars, optVars, retractVars, homeVars,
                   received>>
    /\ IF request = "save_state" THEN
          /\ saved_current_position' = current_position
          /\ saved_absolute_mode' = absolute_mode
          /\ UNCHANGED <<current_position, absolute_mode, milestone_absolute_mode,
                         milestone_last_position>>
       ELSE
          /\ current_position' = saved_current_position
          /\ milestone_last_position' = saved_current_position
          /\ absolute_mode' = saved_absolute_mode
          /\ milestone_absolute_mode' = saved_absolute_mode
          /\ UNCHANGED <<saved_current_position, saved_absolute_mode>>

(***************************************************************************)
(* Initial state: the constructor, on_config_reload and on_module_loaded.  *)
(* A single-config instance is enabled, a multi-config one is not.         *)
(* cancel_zlift_restore is not initialized; the specifications that        *)
(* neither read nor write it start from one of its values, the             *)
(* specification of the retract from both.                                 *)
(***************************************************************************)
InitWith(spmValues, spaValues, feedRates, accelerations, zliftLengths, cancelValues, savedModes) ==
    /\ enabled \in BOOLEAN
    /\ mode = OFF
    /\ current_block = NULL
    /\ current_position = 0 /\ current_angle = 0
    /\ target_position = 0 /\ target_angle = 0
    /\ previous_angle = 0
    /\ travel_distance = 0 /\ travel_ratio = 0
    /\ unstepped_distance = 0
    /\ steps_per_millimeter \in spmValues
    /\ steps_per_angle \in spaValues
    /\ absolute_mode = TRUE /\ milestone_absolute_mode = TRUE
    /\ feed_rate \in feedRates
    /\ acceleration \in accelerations
    /\ en_pin = 0
    /\ volumetric_multiplier = Deg(1) /\ extruder_multiplier = Deg(1)
    /\ identifier = 0
    /\ moving = FALSE /\ direction_bit = FALSE /\ steps_to_move = 0
    /\ steps_per_second = 0 /\ moved_last_block = FALSE
    /\ max_rate = Deg(1000)
    /\ times_taken = [b \in Blocks |-> 0]
    /\ acceleration_ticks_per_second = 1000
    /\ event = "on_module_loaded" /\ consumed = FALSE
    /\ diff_case = -1 /\ input_seen = 0 /\ previous_seen = 0
    /\ begun = 0 /\ sum_travel = 0 /\ sum_stepped = 0
    \* the constructor sets retracted and leaves cancel_zlift_restore as it finds it
    /\ retracted = FALSE /\ cancel_zlift_restore \in cancelValues
    /\ retract_zlift_length \in zliftLengths
    /\ home_pc = "idle" /\ current_search_angle = 0 /\ sensor_value = <<>>
    /\ home_angle = 0 /\ halted = FALSE
    /\ received = <<>>
    /\ command = MCode(0, NoArgs) /\ z_moved = FALSE
    /\ lift_made = 0 /\ z_between = FALSE
    /\ sensor_peak = 0 /\ sensor_width = 0 /\ position_steps = 0 /\ sweep_moves = 0
    /\ sampled_at = <<>>
    /\ halt_moves = 0 /\ entry_position = <<0, 0, 0, 0, 0, 0>>
    \* the constructor clears saved_current_position and leaves saved_absolute_mode
    /\ saved_current_position = 0 /\ saved_absolute_mode \in savedModes
    /\ milestone_last_position = 0
    /\ save_seen = FALSE /\ position_at_save = 0 /\ mode_at_save = TRUE
    /\ speed_pc = "idle" /\ speed_block = NULL /\ stale_use = FALSE

Outstanding == LET Sum[n \in 0..NumBlocks] ==
                       IF n = 0 THEN 0 ELSE Sum[n - 1] + times_taken[n]
               IN  Sum[NumBlocks]

(***************************************************************************)
(* Specification of the block lifecycle: the events reach the axis in any  *)
(* order.                                                                  *)
(***************************************************************************)
\* angles of the E words, trapezoid rates and primary-axis travels offered
LifeAngles == {Deg(0), Deg(90)}
Rates == {100, 200}
LifeTravels == {0, 20 * TravelScale}

ExecCodes ==
    {GCode(1, Arg("E", a), t) : a \in LifeAngles, t \in LifeTravels}
    \cup {GCode(1, NoArgs, 20 * TravelScale), GCode(92, NoArgs, 0), MCode(84, NoArgs)}

Init == InitWith({1}, {1}, {Deg(2)}, {1000}, {0}, {FALSE}, {FALSE})

GcodeExecute ==
    \E gcode \in ExecCodes :
        /\ on_gcode_execute(gcode)
        /\ event' = "on_gcode_execute"
        /\ UNCHANGED <<recvObs, homeObs, saveObs, raceVars>>
        /\ consumed' = FALSE
        /\ UNCHANGED carryVars

BlockBegin ==
    \E block \in Blocks, rate \in Rates :
        /\ Outstanding < MaxTaken
        /\ current_angle + distance_to_angle(travel_distance) >= -Deg(MaxBackAngle)
        /\ on_block_begin(block, rate)
        /\ event' = "on_block_begin"
        /\ UNCHANGED <<recvObs, homeObs, saveObs, raceVars>>
        /\ consumed' = (IF enabled THEN TRUE ELSE consumed)
        /\ UNCHANGED carryVars

BlockEnd ==
    /\ on_block_end
    /\ event' = "on_block_end"
    /\ UNCHANGED <<recvObs, homeObs, saveObs, raceVars>>
    /\ UNCHANGED <<consumed, carryVars>>

StepperFinished ==
    /\ stepper_motor_finished_move
    /\ event' = "stepper_motor_finished_move"
    /\ UNCHANGED <<recvObs, homeObs, saveObs, raceVars>>
    /\ UNCHANGED <<consumed, carryVars>>

SpeedChange ==
    \E argument \in {0, 1}, rate \in Rates :
        /\ on_speed_change(argument, rate)
        /\ event' = (IF argument = 0 THEN "on_speed_change(0)" ELSE "on_speed_change")
        /\ UNCHANGED <<recvObs, homeObs, saveObs, raceVars>>
        /\ UNCHANGED <<consumed, carryVars>>

AccelerationTick ==
    /\ acceleration_tick
    /\ event' = "acceleration_tick"
    /\ UNCHANGED <<recvObs, homeObs, saveObs, raceVars>>
    /\ UNCHANGED <<consumed, carryVars>>

Next ==
    \/ GcodeExecute
    \/ BlockBegin
    \/ BlockEnd
    \/ StepperFinished
    \/ SpeedChange
    \/ AccelerationTick

Spec == Init /\ [][Next]_vars

(***************************************************************************)
(* Specification of the mode: every kind of command is executed, between   *)
(* block-begins and stepper-finished callbacks.                            *)
(***************************************************************************)
ModeTravels == {0, TravelEpsilon - 1, TravelEpsilon, 20 * TravelScale}

ModeCodes ==
    {GCode(g, Arg("E", Deg(90)), t) : g \in {0, 3, 4, 92}, t \in ModeTravels}
    \cup {GCode(1, NoArgs, 0), GCode(1, NoArgs, 20 * TravelScale),
          GCode(90, NoArgs, 0), GCode(28, Arg("E", Deg(90)), 0),
          MCode(82, NoArgs), MCode(84, Arg("E", Deg(90))), MCode(104, NoArgs)}

ModeExecute ==
    \E gcode \in ModeCodes :
        /\ on_gcode_execute(gcode)
        /\ event' = "on_gcode_execute"
        /\ UNCHANGED <<recvObs, homeObs, saveObs, raceVars>>
        /\ consumed' = FALSE
        /\ UNCHANGED carryVars

ModeNext ==
    \/ ModeExecute
    \/ BlockBegin
    \/ StepperFinished

ModeSpec == Init /\ [][ModeNext]_vars

(***************************************************************************)
(* Specification of the step carry: runs of at most MaxBlocksBegun applied *)
(* block-begins, with E words on a quarter-degree grid and M92 changing    *)
(* the steps per mm in between.  sum_travel adds up the travel distances   *)
(* applied, sum_stepped the distance of the steps programmed into the      *)
(* stepper (signed by the direction programmed), begun counts the          *)
(* applications; the blocks begin in the order of the queue.                *)
(***************************************************************************)
StepSpmValues == {1, 4}
StepAngles == {0, Scale \div 4, Scale \div 2}
StepCodes == {GCode(1, Arg("E", a), 0) : a \in StepAngles}
M92Codes == {MCode(92, Arg("E", v)) : v \in StepSpmValues}

StepsInit == InitWith(StepSpmValues, {1}, {Deg(2)}, {1000}, {0}, {FALSE}, {FALSE})

StepsExecute ==
    \E gcode \in StepCodes :
        /\ on_gcode_execute(gcode)
        /\ event' = "on_gcode_execute"
        /\ UNCHANGED <<recvObs, homeObs, saveObs, raceVars>>
        /\ consumed' = FALSE
        /\ UNCHANGED carryVars

StepsM92 ==
    \E gcode \in M92Codes :
        /\ on_gcode_received_M92(gcode)
        /\ event' = "on_gcode_received"
        /\ UNCHANGED <<recvObs, homeObs, saveObs, raceVars>>
        /\ UNCHANGED <<consumed, carryVars>>

StepsBlockBegin ==
    \E rate \in Rates :
        /\ begun < MaxBlocksBegun
        /\ on_block_begin((begun % NumBlocks) + 1, rate)
        /\ event' = "on_block_begin"
        /\ UNCHANGED <<recvObs, homeObs, saveObs, raceVars>>
        /\ consumed' = (IF enabled THEN TRUE ELSE consumed)
        /\ IF enabled /\ mode # OFF
           THEN /\ begun' = begun + 1
                /\ sum_travel' = sum_travel + travel_distance
                /\ sum_stepped' = sum_stepped +
                      (IF times_taken' = times_taken THEN 0
                       ELSE (IF direction_bit' THEN 1 ELSE -1)
                            * ((steps_to_move' * Scale) \div steps_per_millimeter))
           ELSE UNCHANGED carryVars

StepsNext ==
    \/ StepsExecute
    \/ StepsM92
    \/ StepsBlockBegin

StepsSpec == StepsInit /\ [][StepsNext]_vars

(***************************************************************************)
(* Specification of the angle optimizer: G1 commands with E words over a   *)
(* grid of angles in [0,360), executed one after the other, so that every  *)
(* pair of previous_angle and input angle of the grid is reached.          *)
(***************************************************************************)
OptAngleStep == 15
OptAngles ==
    {Deg(OptAngleStep * k) : k \in 0..((360 \div OptAngleStep) - 1)}
    \cup {Scale \div 2, Deg(179) + Scale \div 2, Deg(180) + Scale \div 2,
          Deg(359) + Scale \div 2}
OptCodes == {GCode(1, Arg("E", a), 0) : a \in OptAngles}

OptInit == InitWith({1, 2}, {1, 2}, {Deg(2)}, {1000}, {0}, {FALSE}, {FALSE})

OptExecute ==
    \E gcode \in OptCodes :
        /\ on_gcode_execute(gcode)
        /\ event' = "on_gcode_execute"
        /\ UNCHANGED <<recvObs, homeObs, saveObs, raceVars>>
        /\ consumed' = FALSE
        /\ UNCHANGED carryVars

OptNext == OptExecute

OptSpec == OptInit /\ [][OptNext]_vars

(***************************************************************************)
(* Specification of the ties: steps per mm 10 and steps per angle 5, G1    *)
(* commands with E words on a 45-degree grid (so that the direct and the   *)
(* antipodal candidates tie at 90 degrees), each followed by block-begins. *)
(***************************************************************************)
TieAngles == {Deg(45 * k) : k \in 0..7}
TieCodes == {GCode(1, Arg("E", a), 0) : a \in TieAngles}

TieInit == InitWith({10}, {5}, {Deg(2)}, {1000}, {0}, {FALSE}, {FALSE})

TieExecute ==
    \E gcode \in TieCodes :
        /\ on_gcode_execute(gcode)
        /\ event' = "on_gcode_execute"
        /\ UNCHANGED <<recvObs, homeObs, saveObs, raceVars>>
        /\ consumed' = FALSE
        /\ UNCHANGED carryVars

TieNext ==
    \/ TieExecute
    \/ BlockBegin
    \/ StepperFinished

TieSpec == TieInit /\ [][TieNext]_vars

(***************************************************************************)
(* Specification of the firmware retract: G10, G11 (with and without L),   *)
(* linear Z moves in absolute and relative mode, a SOLO move, and M207     *)
(* setting the Z lift, received in any order.  z_moved tells whether a     *)
(* linear Z move in absolute mode (G90 / G91 as the axis tracks them in    *)
(* milestone_absolute_mode) was received while retracted since the last    *)
(* accepted retract, z_between whether any linear Z move was, and          *)
(* lift_made is the Z displacement that retract synthesized.               *)
(***************************************************************************)
ZLiftLengths == {0, Deg(1), -Deg(1)}

RetractCodes ==
    {GCode(g, NoArgs, 0) : g \in {10, 11, 90, 91}}
    \cup {GCode(g, Arg("L", 1), 0) : g \in {10, 11}}
    \cup {GCode(g, Arg("Z", Deg(5)), 5 * TravelScale) : g \in {0, 1}}
    \cup {GCode(1, Arg("E", Deg(90)), 0), GCode(1, Arg("X", Deg(5)), 5 * TravelScale)}

M207Codes ==
    {MCode(207, Arg("Z", z)) : z \in ZLiftLengths} \cup {MCode(207, Arg("S", Deg(3)))}

RetractInit == InitWith({1}, {1}, {Deg(2)}, {1000}, {0, Deg(1)}, BOOLEAN, {FALSE})

IsAcceptedRetract(gcode) ==
    /\ enabled /\ gcode.has_g /\ ~has_letter(gcode, "L")
    /\ \/ (gcode.g = 10 /\ ~retracted)
       \/ (gcode.g = 11 /\ retracted)

IsAbsoluteZMove(gcode) ==
    /\ gcode.has_g /\ gcode.g \in {0, 1} /\ has_letter(gcode, "Z")
    /\ milestone_absolute_mode

\* a linear move with a Z word, in absolute or relative mode
IsZMoveCommand(gcode) == gcode.has_g /\ gcode.g \in {0, 1} /\ has_letter(gcode, "Z")

\* the sum of the relative Z moves among the calls
RECURSIVE ZDisplacement(_)
ZDisplacement(calls) ==
    IF calls = <<>> THEN 0
    ELSE (IF Head(calls).call = "robot_on_gcode_received" THEN Head(calls).arg ELSE 0)
         + ZDisplacement(Tail(calls))

RetractReceive ==
    \E gcode \in RetractCodes :
        /\ on_gcode_received_G(gcode)
        /\ event' = "on_gcode_received"
        /\ command' = gcode
        /\ z_moved' = (IF IsAcceptedRetract(gcode) /\ gcode.g = 10 THEN FALSE
                       ELSE IF enabled /\ retracted /\ IsAbsoluteZMove(gcode) THEN TRUE
                       ELSE z_moved)
        /\ lift_made' = (IF IsAcceptedRetract(gcode) /\ gcode.g = 10
                         THEN ZDisplacement(received') ELSE lift_made)
        /\ z_between' = (IF IsAcceptedRetract(gcode) /\ gcode.g = 10 THEN FALSE
                         ELSE IF retracted /\ IsZMoveCommand(gcode) THEN TRUE
                         ELSE z_between)
        /\ UNCHANGED <<consumed, carryVars, homeObs, saveObs, raceVars>>

RetractM207 ==
    \E gcode \in M207Codes :
        /\ on_gcode_received_M207(gcode)
        /\ event' = "on_gcode_received"
        /\ command' = gcode
        /\ UNCHANGED <<consumed, carryVars, homeObs, saveObs, raceVars,
                       z_moved, lift_made, z_between>>

RetractNext ==
    \/ RetractReceive
    \/ RetractM207

RetractSpec == RetractInit /\ [][RetractNext]_vars

(***************************************************************************)
(* Specification of the homing: G28 with and without an E word, the steps  *)
(* of do_home, the stepper finishing its moves, and the kernel halting.    *)
(* The sensor reads high over an arc that begins at sensor_peak, which is  *)
(* at the start, one step on, half way or one step before the end of the   *)
(* cycle, measured from where the axis stands                              *)
(* when the routine begins.  position_steps adds up the steps of the moves *)
(* done, sweep_moves counts the moves of the sweep, sampled_at keeps the   *)
(* angle of the axis at each sample.                                       *)
(***************************************************************************)
SensorPeaks == {Deg(0), Deg(RAW_SEARCH_ANGLE), Deg(180), Deg(DEGREE_OF_CYCLE - RAW_SEARCH_ANGLE)}
SensorWidths == {0, Deg(RAW_SEARCH_ANGLE)}
HomeCodes == {GCode(28, Arg("E", 0), 0), GCode(28, NoArgs, 0)}

HomeInit == InitWith({1}, {1, 2}, {Deg(2)}, {1000}, {0}, {FALSE}, {FALSE})

\* a halted kernel passes no command on to the modules
HomeG28 ==
    \E gcode \in HomeCodes, peak \in SensorPeaks, width \in SensorWidths :
        /\ ~halted
        /\ on_gcode_received_G28(gcode)
        /\ event' = "on_gcode_received"
        /\ command' = gcode
        /\ IF has_letter(gcode, "E")
           THEN /\ sensor_peak' = peak /\ sensor_width' = width
                /\ position_steps' = 0 /\ sweep_moves' = 0 /\ sampled_at' = <<>>
                /\ UNCHANGED <<halt_moves, entry_position>>
           ELSE UNCHANGED homeObs
        /\ UNCHANGED <<consumed, carryVars, saveObs, raceVars,
                       z_moved, lift_made, z_between>>

HomeSweep ==
    /\ do_home_sweep
    /\ event' = "do_home"
    /\ sweep_moves' = sweep_moves + 1
    /\ sampled_at' = Append(sampled_at, physical_angle)
    /\ UNCHANGED <<consumed, carryVars, recvObs, saveObs, raceVars, sensor_peak, sensor_width, position_steps,
                   halt_moves, entry_position>>

HomeSetZero ==
    /\ do_home_set_zero
    /\ event' = "do_home"
    /\ UNCHANGED <<consumed, carryVars, recvObs, saveObs, raceVars, homeObs>>

HomeWait ==
    /\ do_home_wait
    /\ event' = (IF moving THEN "do_home_halted"
                 ELSE IF home_pc = "final_wait" THEN "do_home_done"
                 ELSE "do_home")
    /\ UNCHANGED <<consumed, carryVars, recvObs, saveObs, raceVars, homeObs>>

HomeStepperFinished ==
    /\ moving
    /\ stepper_motor_finished_move
    /\ event' = "stepper_motor_finished_move"
    /\ position_steps' = position_steps + steps_to_move
    /\ UNCHANGED <<consumed, carryVars, recvObs, saveObs, raceVars, sensor_peak, sensor_width,
                   sweep_moves, sampled_at, halt_moves, entry_position>>

HomeHalt ==
    /\ home_pc # "idle"
    /\ kernel_halt
    /\ event' = "halt"
    /\ UNCHANGED <<consumed, carryVars, recvObs, saveObs, raceVars, homeObs>>

HomeNext ==
    \/ HomeG28
    \/ HomeSweep
    \/ HomeSetZero
    \/ HomeWait
    \/ HomeStepperFinished
    \/ HomeHalt

HomeSpec == HomeInit /\ [][HomeNext]_vars

\* the routine runs on when it can (the main loop is blocked in it), and a
\* move under way comes to its end
HomeFairSpec ==
    /\ HomeSpec
    /\ WF_vars(HomeSweep) /\ WF_vars(HomeSetZero) /\ WF_vars(HomeWait)
    /\ WF_vars(HomeStepperFinished)

(***************************************************************************)
(* Specification of a halt during the homing.  The axis is first given a   *)
(* target by an executed move, then homed, and the kernel halts at any     *)
(* point of the routine.  The busy-wait loops poll far faster than the     *)
(* stepper steps (10000 steps a second, ten steps and more a move), so a   *)
(* move programmed under a halt is seen by a poll before it is over: the   *)
(* stepper does not finish such a move while the routine waits for it.     *)
(* halt_moves counts the moves programmed under the halt, entry_position   *)
(* keeps the position state the G28 found.                                 *)
(***************************************************************************)
HaltPeaks == {Deg(0), Deg(RAW_SEARCH_ANGLE), Deg(180)}
HaltCodes == {GCode(1, Arg("E", Deg(3)), 0), GCode(1, Arg("E", Deg(6)), 0)}

HaltInit == InitWith({1}, {1}, {Deg(2)}, {1000}, {0}, {FALSE}, {FALSE})

position_state == <<current_position, current_angle, target_position, target_angle,
                    unstepped_distance, travel_distance>>

HaltExecute ==
    \E gcode \in HaltCodes :
        /\ home_pc = "idle" /\ ~halted
        /\ on_gcode_execute(gcode)
        /\ event' = "on_gcode_execute"
        /\ command' = gcode
        /\ UNCHANGED <<consumed, carryVars, saveObs, raceVars, z_moved,
                       lift_made, z_between, homeObs>>

HaltG28 ==
    \E gcode \in HomeCodes, peak \in HaltPeaks :
        /\ ~halted
        /\ on_gcode_received_G28(gcode)
        /\ event' = "on_gcode_received"
        /\ command' = gcode
        /\ entry_position' = position_state
        /\ halt_moves' = 0
        /\ IF has_letter(gcode, "E")
           THEN /\ sensor_peak' = peak /\ sensor_width' = 0
                /\ position_steps' = 0 /\ sweep_moves' = 0 /\ sampled_at' = <<>>
           ELSE UNCHANGED <<sensor_peak, sensor_width, position_steps, sweep_moves,
                            sampled_at>>
        /\ UNCHANGED <<consumed, carryVars, saveObs, raceVars,
                       z_moved, lift_made, z_between>>

HaltSweep ==
    /\ do_home_sweep
    /\ event' = "do_home"
    /\ sweep_moves' = sweep_moves + 1
    /\ sampled_at' = Append(sampled_at, physical_angle)
    /\ halt_moves' = (IF halted THEN halt_moves + 1 ELSE halt_moves)
    /\ UNCHANGED <<consumed, carryVars, recvObs, saveObs, raceVars, sensor_peak, sensor_width, position_steps,
                   entry_position>>

HaltSetZero ==
    /\ do_home_set_zero
    /\ event' = "do_home"
    /\ halt_moves' = (IF halted THEN halt_moves + 1 ELSE halt_moves)
    /\ UNCHANGED <<consumed, carryVars, recvObs, saveObs, raceVars, sensor_peak, sensor_width, position_steps,
                   sweep_moves, sampled_at, entry_position>>

HaltStepperFinished ==
    /\ moving
    /\ halt_moves = 0
    /\ stepper_motor_finished_move
    /\ event' = "stepper_motor_finished_move"
    /\ position_steps' = position_steps + steps_to_move
    /\ UNCHANGED <<consumed, carryVars, recvObs, saveObs, raceVars, sensor_peak, sensor_width,
                   sweep_moves, sampled_at, halt_moves, entry_position>>

HaltNext ==
    \/ HaltExecute
    \/ HaltG28
    \/ HaltSweep
    \/ HaltSetZero
    \/ HomeWait
    \/ HaltStepperFinished
    \/ HomeHalt

HaltSpec == HaltInit /\ [][HaltNext]_vars

(***************************************************************************)
(* Specification of the snapshot: save_state and restore_state requests    *)
(* among executed moves and mode commands, blocks beginning, and received  *)
(* G28 and G92.  save_seen tells that a save was requested,                *)
(* position_at_save and mode_at_save keep current_position and             *)
(* absolute_mode as the last save found them.                              *)
(***************************************************************************)
SaveExecCodes == {GCode(1, Arg("E", Deg(90)), 0), MCode(82, NoArgs), MCode(83, NoArgs)}
SaveRecvCodes == {GCode(92, Arg("E", Deg(5)), 0), GCode(92, NoArgs, 0)}
SaveRates == {100}

SaveInit == InitWith({1}, {1}, {Deg(2)}, {1000}, {0}, {FALSE}, BOOLEAN)

SaveExecute ==
    \E gcode \in SaveExecCodes :
        /\ on_gcode_execute(gcode)
        /\ event' = "on_gcode_execute"
        /\ command' = gcode
        /\ UNCHANGED <<consumed, carryVars, z_moved, lift_made, z_between,
                       homeObs, saveObs, raceVars>>

SaveBlockBegin ==
    \E block \in {1}, rate \in SaveRates :
        /\ Outstanding = 0
        /\ begun < MaxBlocksBegun
        /\ on_block_begin(block, rate)
        /\ event' = "on_block_begin"
        /\ begun' = begun + 1
        /\ UNCHANGED <<consumed, sum_travel, sum_stepped, recvObs, homeObs, saveObs, raceVars>>

SaveStepperFinished ==
    /\ moving
    /\ stepper_motor_finished_move
    /\ event' = "stepper_motor_finished_move"
    /\ UNCHANGED <<consumed, carryVars, recvObs, homeObs, saveObs, raceVars>>

SaveG28 ==
    /\ on_gcode_received_G28(GCode(28, NoArgs, 0))
    /\ event' = "on_gcode_received"
    /\ command' = GCode(28, NoArgs, 0)
    /\ UNCHANGED <<consumed, carryVars, z_moved, lift_made, z_between,
                   homeObs, saveObs, raceVars>>

SaveG92 ==
    \E gcode \in SaveRecvCodes :
        /\ on_gcode_received_G(gcode)
        /\ event' = "on_gcode_received"
        /\ command' = gcode
        /\ UNCHANGED <<consumed, carryVars, z_moved, lift_made, z_between,
                       homeObs, saveObs, raceVars>>

SaveState ==
    /\ on_set_public_data("save_state")
    /\ event' = "save_state"
    /\ save_seen' = TRUE
    /\ position_at_save' = current_position
    /\ mode_at_save' = absolute_mode
    /\ UNCHANGED <<consumed, carryVars, recvObs, homeObs, raceVars>>

RestoreState ==
    /\ on_set_public_data("restore_state")
    /\ event' = "restore_state"
    /\ UNCHANGED <<consumed, carryVars, recvObs, homeObs, saveObs, raceVars>>

SaveNext ==
    \/ SaveExecute
    \/ SaveBlockBegin
    \/ SaveStepperFinished
    \/ SaveG28
    \/ SaveG92
    \/ SaveState
    \/ RestoreState

SaveSpec == SaveInit /\ [][SaveNext]_vars

(***************************************************************************)
(* Specification of the two accumulators: executed G1 and G92, blocks      *)
(* beginning and their moves ending, received G28 and M92, and save_state  *)
(* and restore_state requests, in any order.                               *)
(***************************************************************************)
AgreeExecCodes ==
    {GCode(1, Arg("E", Deg(90)), 0), GCode(92, Arg("E", Deg(5)), 0), GCode(92, NoArgs, 0)}
AgreeM92Codes == {MCode(92, Arg("E", v)) : v \in {1, 2}}

AgreeInit == InitWith({1}, {1}, {Deg(2)}, {1000}, {0}, {FALSE}, {TRUE})

AgreeExecute ==
    \E gcode \in AgreeExecCodes :
        /\ on_gcode_execute(gcode)
        /\ event' = "on_gcode_execute"
        /\ command' = gcode
        /\ UNCHANGED <<consumed, carryVars, z_moved, lift_made, z_between,
                       homeObs, saveObs, raceVars>>

AgreeBlockBegin ==
    \E block \in {1}, rate \in SaveRates :
        /\ Outstanding = 0
        /\ begun < MaxBlocksBegun
        /\ on_block_begin(block, rate)
        /\ event' = "on_block_begin"
        /\ begun' = begun + 1
        /\ UNCHANGED <<consumed, sum_travel, sum_stepped, recvObs, homeObs, saveObs,
                       raceVars>>

AgreeStepperFinished ==
    /\ moving
    /\ stepper_motor_finished_move
    /\ event' = "stepper_motor_finished_move"
    /\ UNCHANGED <<consumed, carryVars, recvObs, homeObs, saveObs, raceVars>>

AgreeG28 ==
    /\ on_gcode_received_G28(GCode(28, NoArgs, 0))
    /\ event' = "on_gcode_received"
    /\ command' = GCode(28, NoArgs, 0)
    /\ UNCHANGED <<consumed, carryVars, z_moved, lift_made, z_between,
                   homeObs, saveObs, raceVars>>

AgreeM92 ==
    \E gcode \in AgreeM92Codes :
        /\ on_gcode_received_M92(gcode)
        /\ event' = "on_gcode_received"
        /\ command' = gcode
        /\ UNCHANGED <<consumed, carryVars, z_moved, lift_made, z_between,
                       homeObs, saveObs, raceVars>>

AgreeSave ==
    /\ on_set_public_data("save_state")
    /\ event' = "save_state"
    /\ UNCHANGED <<consumed, carryVars, recvObs, homeObs, saveObs, raceVars>>

AgreeRestore ==
    /\ on_set_public_data("restore_state")
    /\ event' = "restore_state"
    /\ UNCHANGED <<consumed, carryVars, recvObs, homeObs, saveObs, raceVars>>

AgreeNext ==
    \/ AgreeExecute
    \/ AgreeBlockBegin
    \/ AgreeStepperFinished
    \/ AgreeG28
    \/ AgreeM92
    \/ AgreeSave
    \/ AgreeRestore

AgreeSpec == AgreeInit /\ [][AgreeNext]_vars

(***************************************************************************)
(* Specification of the SOLO ramp: SOLO moves are executed, their blocks   *)
(* begin and end, and the acceleration tick fires, for accelerations whose *)
(* rate increase per tick is a whole step and for one whose rate increase  *)
(* floors to 0.  RampFairSpec adds the periodic firing of the tick.        *)
(***************************************************************************)
RampAngles == {Deg(0), Deg(90), Deg(180)}
RampCodes == {GCode(1, Arg("E", a), 0) : a \in RampAngles}
RampAccelerations == {500, 1000}
RampFeedRates == {Deg(2), Deg(3)}

RampInit == InitWith({1}, {1}, RampFeedRates, RampAccelerations, {0}, {FALSE}, {FALSE})

RampExecute ==
    \E gcode \in RampCodes :
        /\ on_gcode_execute(gcode)
        /\ event' = "on_gcode_execute"
        /\ UNCHANGED <<consumed, carryVars, recvObs, homeObs, saveObs, raceVars>>

RampBlockBegin ==
    \E block \in Blocks, rate \in Rates :
        /\ Outstanding = 0
        /\ begun < MaxBlocksBegun
        /\ on_block_begin(block, rate)
        /\ event' = "on_block_begin"
        /\ begun' = begun + 1
        /\ UNCHANGED <<consumed, sum_travel, sum_stepped, recvObs, homeObs, saveObs,
                       raceVars>>

RampStepperFinished ==
    /\ moving
    /\ stepper_motor_finished_move
    /\ event' = "stepper_motor_finished_move"
    /\ UNCHANGED <<consumed, carryVars, recvObs, homeObs, saveObs, raceVars>>

RampTick ==
    /\ acceleration_tick
    /\ event' = "acceleration_tick"
    /\ UNCHANGED <<consumed, carryVars, recvObs, homeObs, saveObs, raceVars>>

RampNext ==
    \/ RampExecute
    \/ RampBlockBegin
    \/ RampStepperFinished
    \/ RampTick

RampSpec == RampInit /\ [][RampNext]_vars

RampFairSpec == RampSpec /\ WF_vars(RampTick)

(***************************************************************************)
(* Specification of the speed change among the other callbacks: a FOLLOW   *)
(* move is executed and begun, and stepper-finished, block-end and         *)
(* block-begin come at any point, between the guard of on_speed_change and *)
(* its body included.  Commands are executed from the main loop, not       *)
(* inside the callback.                                                    *)
(***************************************************************************)
RaceCodes == {GCode(1, Arg("E", Deg(90)), 20 * TravelScale), GCode(1, Arg("E", Deg(0)), 0)}

RaceInit == InitWith({1}, {1}, {Deg(2)}, {1000}, {0}, {FALSE}, {FALSE})

RaceExecute ==
    \E gcode \in RaceCodes :
        /\ speed_pc = "idle"
        /\ on_gcode_execute(gcode)
        /\ event' = "on_gcode_execute"
        /\ command' = gcode
        /\ UNCHANGED <<consumed, carryVars, z_moved, lift_made, z_between,
                       homeObs, saveObs, raceVars>>

RaceBlockBegin ==
    \E block \in Blocks, rate \in Rates :
        /\ Outstanding < MaxTaken
        /\ begun < MaxBlocksBegun
        /\ on_block_begin(block, rate)
        /\ event' = "on_block_begin"
        /\ begun' = begun + 1
        /\ UNCHANGED <<consumed, sum_travel, sum_stepped, recvObs, homeObs, saveObs,
                       raceVars>>

RaceBlockEnd ==
    /\ on_block_end
    /\ event' = "on_block_end"
    /\ UNCHANGED <<consumed, carryVars, recvObs, homeObs, saveObs, raceVars>>

RaceStepperFinished ==
    /\ moving
    /\ stepper_motor_finished_move
    /\ event' = "stepper_motor_finished_move"
    /\ UNCHANGED <<consumed, carryVars, recvObs, homeObs, saveObs, raceVars>>

RaceSpeedGuard ==
    \E argument \in {0, 1} :
        /\ on_speed_change_guard(argument)
        /\ event' = "on_speed_change: guard"
        /\ UNCHANGED <<consumed, carryVars, recvObs, homeObs, saveObs>>

RaceSpeedBody ==
    \E rate \in Rates :
        /\ on_speed_change_body(rate)
        /\ event' = "on_speed_change: body"
        /\ UNCHANGED <<consumed, carryVars, recvObs, homeObs, saveObs>>

RaceNext ==
    \/ RaceExecute
    \/ RaceBlockBegin
    \/ RaceBlockEnd
    \/ RaceStepperFinished
    \/ RaceSpeedGuard
    \/ RaceSpeedBody

RaceSpec == RaceInit /\ [][RaceNext]_vars

(***************************************************************************)
(* C1.  On an enabled axis the takes never exceed the releases by more     *)
(* than one: the axis never holds two unreleased claims at the same time.  *)
(***************************************************************************)
C1_AtMostOneClaim == enabled => Outstanding <= 1

(***************************************************************************)
(* C2.  Every block the axis claims is released through stepper-finished   *)
(* or the flush, whatever the order of the events after the claim: when    *)
(* the stepper-finished callback runs while the claim of the axis is still *)
(* unreleased, it releases it.                                             *)
(***************************************************************************)
C2_FinishedReleasesTheClaim ==
    [][(enabled /\ Outstanding = 1 /\ stepper_motor_finished_move)
          => Outstanding' = 0]_vars

(***************************************************************************)
(* C3.  The axis never releases a block more often than it has taken it,   *)
(* and stepper-finished with no block claimed (in particular after the     *)
(* flush has released the block) releases nothing and leaves the axis as   *)
(* it is.                                                                  *)
(***************************************************************************)
C3_NoReleaseWithoutClaim ==
    /\ [](\A b \in Blocks : times_taken[b] >= 0)
    /\ [][(stepper_motor_finished_move /\ current_block = NULL)
            => UNCHANGED <<axisVars, times_taken>>]_vars

\* a FOLLOW move was claimed, the flush released it, then stepper-finished ran
C3_Witness ==
    /\ enabled /\ event = "stepper_motor_finished_move"
    /\ mode = FOLLOW /\ moved_last_block /\ steps_to_move = 0
    /\ current_block = NULL /\ Outstanding = 0

(***************************************************************************)
(* C4.  Whenever current_block is set, the axis holds exactly one          *)
(* unreleased claim and it is on the block current_block refers to.        *)
(***************************************************************************)
C4_CurrentBlockIsTheOnlyClaim ==
    current_block # NULL => (Outstanding = 1 /\ times_taken[current_block] = 1)

(***************************************************************************)
(* C7.  The mode after a command-execute depends only on the command:      *)
(* SOLO for a G0-G3 with E and primary travel below the epsilon on an      *)
(* enabled axis, FOLLOW for such a move with travel at or above it, OFF    *)
(* for everything else.                                                    *)
(***************************************************************************)
MoveWithE(gcode) == gcode.has_g /\ gcode.g \in 0..3 /\ "E" \in DOMAIN gcode.args

ModeOfCommand(gcode) ==
    IF enabled /\ MoveWithE(gcode)
    THEN IF gcode.millimeters_of_travel < TravelEpsilon THEN SOLO ELSE FOLLOW
    ELSE OFF

C7_ModeFromCommandOnly ==
    [][\A gcode \in ModeCodes :
          on_gcode_execute(gcode) => mode' = ModeOfCommand(gcode)]_vars

\* a move had been claimed (so the mode was not OFF) and a later command left OFF
C7_Witness ==
    /\ enabled /\ event = "on_gcode_execute" /\ mode = OFF /\ current_block # NULL

(***************************************************************************)
(* C8.  A mode and travel computed by one command-execute are consumed by  *)
(* one block-begin at most: a block-begin with no command-execute since    *)
(* the previous block-begin adds nothing to the position, programs no      *)
(* steps and makes no claim.                                               *)
(***************************************************************************)
C8_ConsumedOnce ==
    [][(enabled /\ consumed /\ \E b \in Blocks, r \in Rates : on_block_begin(b, r))
          => /\ current_position' = current_position
             /\ current_angle' = current_angle
             /\ times_taken' = times_taken]_vars

(***************************************************************************)
(* C5.  After every block-begin that applies a travel, the magnitude of    *)
(* unstepped_distance is strictly below the distance of one step,          *)
(* 1 / steps_per_millimeter, also when M92 has changed the steps per mm    *)
(* between blocks.                                                         *)
(***************************************************************************)
C5_CarryBelowOneStep ==
    (enabled /\ event = "on_block_begin" /\ mode # OFF)
        => Abs(unstepped_distance) * steps_per_millimeter < Scale

(***************************************************************************)
(* C6.  After any run of block-begins from unstepped_distance = 0, the     *)
(* distance of the steps programmed plus unstepped_distance differs from   *)
(* the sum of the travel distances by less than one step.                  *)
(***************************************************************************)
C6_NoDrift ==
    Abs(sum_stepped + unstepped_distance - sum_travel) * steps_per_millimeter < Scale

\* three travels applied, steps programmed backward, and a carry left over
C6_Witness ==
    /\ enabled /\ begun = MaxBlocksBegun /\ sum_stepped < 0
    /\ unstepped_distance # 0 /\ sum_travel # 0

(***************************************************************************)
(* C9.  For previous_angle and input angle in [0,360) the magnitude of     *)
(* the travel distance left by optimize_angle is angle_to_distance of the  *)
(* least of |p-t|, |360-|p-t||, |e-t|, |360-|e-t||, e = getNextEdgeAngle(p)*)
(***************************************************************************)
FourCandidates(p, t) ==
    LET e == IF p + Deg(180) >= Full THEN p + Deg(180) - Full ELSE p + Deg(180)
    IN  {Abs(p - t), Abs(Full - Abs(p - t)), Abs(e - t), Abs(Full - Abs(e - t))}

Least(S) == CHOOSE x \in S : \A y \in S : x <= y

OptimizeRan == enabled /\ event = "on_gcode_execute"

C9_TravelIsLeastCandidate ==
    OptimizeRan =>
        Abs(travel_distance)
            = angle_to_distance(Least(FourCandidates(previous_seen, input_seen)))

\* the antipodal candidate won with a travel that is not zero
C9_Witness ==
    /\ OptimizeRan /\ diff_case = THIRD_CASE /\ travel_distance # 0
    /\ previous_seen # 0

(***************************************************************************)
(* C10.  previous_angle plus the angle of the travel distance left by      *)
(* optimize_angle is the input angle modulo 360.                           *)
(***************************************************************************)
AngleReached == previous_seen + distance_to_angle(travel_distance)

C10_ReachesTarget ==
    OptimizeRan => (AngleReached - input_seen) % Full = 0

(***************************************************************************)
(* C10 as amended.  It is the input angle modulo 360 when the input equals *)
(* previous_angle or a direct candidate (first, second) wins, and the      *)
(* input angle plus 180 modulo 360 when an antipodal candidate (third,     *)
(* fourth) wins: in every case the input angle modulo 180.                 *)
(***************************************************************************)
C10_ReachesTargetOrAntipode ==
    OptimizeRan =>
        /\ diff_case \in {-1, FIRST_CASE, SECOND_CASE}
              => (AngleReached - input_seen) % Full = 0
        /\ diff_case \in {THIRD_CASE, FOURTH_CASE}
              => (AngleReached - input_seen - Deg(180)) % Full = 0

\* the fourth candidate won and the travel ends on the antipode of the input
C10_Witness ==
    /\ OptimizeRan /\ diff_case = FOURTH_CASE /\ travel_distance # 0
    /\ (AngleReached - input_seen) % Full # 0

(***************************************************************************)
(* C11.  optimize_angle with an input equal to previous_angle leaves a     *)
(* travel distance of zero and previous_angle as it was; so does every     *)
(* call whose winning candidate is zero (an input on the antipode of       *)
(* previous_angle).                                                        *)
(***************************************************************************)
NoOpConditions ==
    \/ input_seen = previous_seen
    \/ Least(FourCandidates(previous_seen, input_seen)) = 0

C11_NoOpKeepsPreviousAngle ==
    (OptimizeRan /\ NoOpConditions)
        => (travel_distance = 0 /\ previous_angle = previous_seen)

\* the input was the antipode of previous_angle: the third candidate is zero
C11_Witness ==
    /\ OptimizeRan /\ input_seen # previous_seen /\ previous_seen # 0
    /\ diff_case = THIRD_CASE /\ travel_distance = 0
    /\ previous_angle = previous_seen

(***************************************************************************)
(* C12.  When several of the four candidates tie for the minimum, the      *)
(* first-listed one is used, so the direct difference wins a tie with the  *)
(* antipodal candidates.  With steps per mm 10 and steps per angle 5, the  *)
(* input 90 from previous_angle 0 leaves the travel distance +45, and the  *)
(* block-begin that follows from unstepped_distance 0 programs 450 steps   *)
(* forward and leaves unstepped_distance 0.                                *)
(***************************************************************************)
CandidateList(p, t) ==
    LET e == IF p + Deg(180) >= Full THEN p + Deg(180) - Full ELSE p + Deg(180)
    IN  <<Abs(p - t), Abs(Full - Abs(p - t)), Abs(e - t), Abs(Full - Abs(e - t))>>

C12_FirstListedWinsTies ==
    /\ [](( OptimizeRan /\ diff_case >= 0) =>
             LET c == CandidateList(previous_seen, input_seen)
             IN  /\ \A j \in 1..4 : c[diff_case + 1] <= c[j]
                 /\ \A j \in 1..diff_case : c[j] > c[diff_case + 1])
    /\ []((OptimizeRan /\ steps_per_millimeter = 10 /\ steps_per_angle = 5
             /\ previous_seen = 0 /\ input_seen = Deg(90))
            => (diff_case = FIRST_CASE /\ travel_distance = Deg(45)))
    /\ [][(/\ enabled /\ mode # OFF /\ steps_per_millimeter = 10
            /\ travel_distance = Deg(45) /\ unstepped_distance = 0
            /\ \E b \in Blocks, r \in Rates : on_block_begin(b, r))
            => (steps_to_move' = 450 /\ direction_bit' /\ unstepped_distance' = 0)]_vars

\* the tie at 90 degrees from 0 was executed and its block-begin programmed the steps
C12_Witness ==
    /\ enabled /\ event = "on_block_begin"
    /\ steps_per_millimeter = 10 /\ steps_per_angle = 5
    /\ previous_seen = 0 /\ input_seen = Deg(90) /\ diff_case = FIRST_CASE
    /\ travel_distance = Deg(45) /\ current_block # NULL
    /\ steps_to_move = 450 /\ direction_bit /\ unstepped_distance = 0

(***************************************************************************)
(* C13.  In FOLLOW mode the travel applied at block-begin (what is added   *)
(* to current_position, when the angle does not wrap) is travel_ratio, as  *)
(* command-execute computed it, times the length of the block begun.       *)
(***************************************************************************)
C13_FollowTravelIsRatioOfBlock ==
    [][\A b \in Blocks, r \in Rates :
          (/\ enabled /\ mode = FOLLOW
           /\ current_angle + distance_to_angle(travel_distance) <= Full
           /\ on_block_begin(b, r))
          => current_position' - current_position
                = (travel_ratio * millimeters(b)) \div Scale]_vars

(***************************************************************************)
(* C14.  The speed-change handler, run with a non-null argument on an      *)
(* enabled axis in FOLLOW mode with a claimed block and a moving stepper,  *)
(* sets the stepper speed to rate * steps_to_move / steps_event_count      *)
(* (2000, 100 and 400 give 500), and a block-begin in FOLLOW mode that     *)
(* programs steps sets its initial speed by the same formula.  The speed   *)
(* is compared to the resolution of the fixed point.                       *)
(***************************************************************************)
IsShareOfRate(speed, rate, steps, count) ==
    /\ speed * count <= rate * steps * Scale
    /\ rate * steps * Scale < speed * count + count

C14_SpeedIsShareOfPrimaryRate ==
    /\ [](steps_event_count(100) = 400 => follow_speed(2000, 100, 100) = Deg(500))
    /\ [][\A r \in Rates :
            (/\ enabled /\ mode = FOLLOW /\ current_block # NULL /\ moving
             /\ on_speed_change(1, r))
            => IsShareOfRate(steps_per_second', r, steps_to_move,
                             steps_event_count(current_block))]_vars
    /\ [][\A b \in Blocks, r \in Rates :
            (/\ enabled /\ mode = FOLLOW /\ on_block_begin(b, r)
             /\ times_taken' # times_taken)
            => IsShareOfRate(steps_per_second', r, steps_to_move',
                             steps_event_count(b))]_vars

\* the servo has reset the speed of a FOLLOW move on block 2 to the share of rate 200
C14_Witness ==
    /\ enabled /\ event = "on_speed_change" /\ mode = FOLLOW
    /\ current_block = 2 /\ moving /\ steps_to_move > 0
    /\ IsShareOfRate(steps_per_second, 200, steps_to_move, steps_event_count(2))

(***************************************************************************)
(* C15.  A G10 received while retracted and a G11 received while not       *)
(* retracted change no state of the axis and make no call (nothing is      *)
(* appended, no solo-block barrier, no Z move); every accepted retract or  *)
(* un-retract flips retracted, and an accepted retract clears              *)
(* cancel_zlift_restore.                                                   *)
(***************************************************************************)
IsRepeatedRetract(gcode) ==
    /\ gcode.has_g
    /\ \/ (gcode.g = 10 /\ retracted)
       \/ (gcode.g = 11 /\ ~retracted)

C15_RetractToggle ==
    /\ [][\A gcode \in RetractCodes :
            (IsRepeatedRetract(gcode) /\ on_gcode_received_G(gcode))
            => (/\ UNCHANGED <<axisVars, stepperVars, times_taken, retractVars>>
                /\ received' = <<>>)]_vars
    /\ [][\A gcode \in RetractCodes :
            (IsAcceptedRetract(gcode) /\ on_gcode_received_G(gcode))
            => (/\ retracted' = ~retracted
                /\ gcode.g = 10 => ~cancel_zlift_restore')]_vars

\* a G10 was received while retracted, after a Z move had set the cancel flag
C15_Witness ==
    /\ enabled /\ event = "on_gcode_received"
    /\ command.has_g /\ command.g = 10 /\ ~has_letter(command, "L")
    /\ retracted /\ cancel_zlift_restore /\ z_moved
    /\ retract_zlift_length > 0 /\ received = <<>>

(***************************************************************************)
(* C16.  On an un-retract accepted while retracted, with a positive Z-lift *)
(* length, the Z move of -retract_zlift_length is synthesized if and only  *)
(* if no Z move in absolute mode was received while retracted since the    *)
(* retract it undoes.                                                      *)
(***************************************************************************)
RestoreSynthesized(calls) ==
    \E i \in 1..Len(calls) :
        calls[i] = robot_on_gcode_received(-retract_zlift_length)

C16_RestoreUnlessAbsoluteZMove ==
    [][\A gcode \in RetractCodes :
          (/\ IsAcceptedRetract(gcode) /\ gcode.g = 11 /\ retract_zlift_length > 0
           /\ on_gcode_received_G(gcode))
          => (RestoreSynthesized(received') <=> ~z_moved)]_vars

(***************************************************************************)
(* C17.  With a Z-lift length that is not zero, an accepted retract makes  *)
(* its calls in the order append_gcode, queue_head_block, Z move of        *)
(* +retract_zlift_length, and an accepted un-retract whose restore is not  *)
(* cancelled in the order Z move of -retract_zlift_length, append_gcode,   *)
(* queue_head_block; with the length zero no Z move is synthesized.        *)
(***************************************************************************)
IsZMove(c) == c.call = "robot_on_gcode_received"

ZLiftOrder(gcode, calls, lifting) ==
    /\ (lifting /\ gcode.g = 10)
          => calls = <<append_gcode(gcode), queue_head_block,
                       robot_on_gcode_received(retract_zlift_length)>>
    /\ (lifting /\ gcode.g = 11 /\ ~cancel_zlift_restore)
          => calls = <<robot_on_gcode_received(-retract_zlift_length),
                       append_gcode(gcode), queue_head_block>>
    /\ ~lifting => \A i \in 1..Len(calls) : ~IsZMove(calls[i])

C17_ZLiftOrder ==
    [][\A gcode \in RetractCodes :
          (IsAcceptedRetract(gcode) /\ on_gcode_received_G(gcode))
          => ZLiftOrder(gcode, received', retract_zlift_length # 0)]_vars

(***************************************************************************)
(* C17 as amended.  The same with a positive Z-lift length; with a length  *)
(* that is zero or negative no Z move is synthesized.                      *)
(***************************************************************************)
C17_ZLiftOrderPositive ==
    [][\A gcode \in RetractCodes :
          (IsAcceptedRetract(gcode) /\ on_gcode_received_G(gcode))
          => ZLiftOrder(gcode, received', retract_zlift_length > 0)]_vars

\* an un-retract has just made its three calls, the restore of the lift first
C17_Witness ==
    /\ enabled /\ event = "on_gcode_received"
    /\ command.has_g /\ command.g = 11 /\ ~retracted
    /\ retract_zlift_length > 0 /\ Len(received) = 3
    /\ received[1] = robot_on_gcode_received(-retract_zlift_length)
    /\ received[2].call = "append_gcode"

(***************************************************************************)
(* C18.  A homing sweep that is not halted issues DEGREE_OF_CYCLE /        *)
(* RAW_SEARCH_ANGLE moves and records as many samples (36 for 360 and 10), *)
(* one sample for each move.                                               *)
(***************************************************************************)
SweepIsOver == home_pc = "final_wait" \/ event = "do_home_done"

C18_SweepCount ==
    SweepIsOver =>
        /\ sweep_moves = DEGREE_OF_CYCLE \div RAW_SEARCH_ANGLE
        /\ Len(sensor_value) = DEGREE_OF_CYCLE \div RAW_SEARCH_ANGLE

(***************************************************************************)
(* C19.  After a sweep that is not halted the home angle is the index of   *)
(* the first of the largest samples times RAW_SEARCH_ANGLE, and the last   *)
(* move is programmed forward for that angle in steps (the peak at index   *)
(* 18 gives 180).                                                          *)
(***************************************************************************)
Largest(seq) == CHOOSE v \in {seq[i] : i \in 1..Len(seq)} : \A j \in 1..Len(seq) : seq[j] <= v

FirstIndexOf(v, seq) == (CHOOSE i \in 1..Len(seq) : seq[i] = v /\ \A j \in 1..(i - 1) : seq[j] # v) - 1

PeakIndex == FirstIndexOf(Largest(sensor_value), sensor_value)

C19_HomeAngleIsFirstPeak ==
    SweepIsOver =>
        /\ home_angle = Deg(PeakIndex * RAW_SEARCH_ANGLE)
        /\ direction_bit
        /\ steps_to_move = PeakIndex * RAW_SEARCH_ANGLE * steps_per_angle
        /\ PeakIndex = 18 => home_angle = Deg(180)

\* the peak was sampled twice, at index 18 and at index 19, and the last move is done
C19_Witness ==
    /\ event = "do_home_done" /\ ~halted
    /\ PeakIndex = 18 /\ sensor_value[20] = sensor_value[19]
    /\ home_angle = Deg(180) /\ steps_to_move = 180 * steps_per_angle
    /\ steps_per_angle = 2 /\ position_steps > 0

(***************************************************************************)
(* C20.  When homing completes without a halt, the angle of the axis (all  *)
(* the moves of the sweep and the last move, modulo 360, from where the    *)
(* sweep began) is the angle at which the largest sample was taken.        *)
(***************************************************************************)
C20_EndsOnPeak ==
    (event = "do_home_done" /\ ~halted)
        => physical_angle = sampled_at[PeakIndex + 1]

(***************************************************************************)
(* C21.  Once the kernel is halted during the homing, do_home programs at  *)
(* most one more stepper move before it returns, and a wait in which the   *)
(* halt is seen with the move under way ends the routine: neither the      *)
(* rest of the sweep nor the wait for the last move goes on.               *)
(***************************************************************************)
C21_HaltStopsHoming ==
    /\ [](halt_moves <= 1)
    /\ [][(halted /\ moving /\ home_pc \in {"sweep_wait", "final_wait"}
            /\ home_pc' # home_pc)
           => home_pc' = "idle"]_vars

\* the halt came between two moves of the sweep, one more move was
\* programmed and the routine returned from its wait
C21_Witness ==
    /\ event = "do_home_halted"
    /\ halt_moves = 1
    /\ sweep_moves > 1 /\ sweep_moves < 37

(***************************************************************************)
(* C22.  When the homing of a G28 is ended by a halt, the position state   *)
(* (current_position, current_angle, target_position, target_angle,        *)
(* unstepped_distance, travel_distance) after the command is what it was   *)
(* before the command.                                                     *)
(***************************************************************************)
C22_HaltKeepsPosition ==
    event = "do_home_halted" => position_state = entry_position

(***************************************************************************)
(* C23.  On a disabled instance a received or executed command other than  *)
(* the globally modal ones (M17, M18, M84, M82, M83, G90, G91) changes no   *)
(* state of the axis, of its stepper, of the retract or of the homing, and *)
(* makes no call to the conveyor or the robot.                             *)
(***************************************************************************)
IsGloballyModal(gcode) ==
    \/ gcode.has_m /\ gcode.m \in {17, 18, 84, 82, 83}
    \/ gcode.has_g /\ ~gcode.has_m /\ gcode.g \in {90, 91}

InCycle(angle) == 0 <= angle /\ angle < Full

C24_AnglesInCycle ==
    InCycle(current_angle) /\ InCycle(target_angle) /\ InCycle(previous_angle)

(***************************************************************************)
(* C25.  A restore_state request that follows a save_state request, with   *)
(* any other operations between the two, leaves current_position and       *)
(* absolute_mode at the values they had at the save, and                   *)
(* milestone_last_position and milestone_absolute_mode at the same values, *)
(* on an enabled and on a disabled instance alike.                         *)
(***************************************************************************)
C25_RestoreReturnsSaved ==
    (event = "restore_state" /\ save_seen)
        => /\ current_position = position_at_save
           /\ absolute_mode = mode_at_save
           /\ milestone_last_position = current_position
           /\ milestone_absolute_mode = absolute_mode

(***************************************************************************)
(* C26.  A block-begin on an enabled axis takes the block and programs the *)
(* stepper, forward iff travel_distance > 0 and for                        *)
(* |floor(steps_per_millimeter * (travel_distance + unstepped_distance))|  *)
(* steps, exactly when mode is not OFF and that count is not zero;         *)
(* otherwise it takes nothing and clears current_block, and with mode OFF  *)
(* it leaves current_position, current_angle and unstepped_distance alone. *)
(***************************************************************************)
BlockStepCount ==
    Abs((steps_per_millimeter * (travel_distance + unstepped_distance)) \div Scale)

C26_ClaimIffStepsToTake ==
    [][(enabled /\ event' = "on_block_begin")
       => /\ IF mode # OFF /\ BlockStepCount # 0
             THEN /\ current_block' \in Blocks
                  /\ times_taken' = take(current_block')
                  /\ moving'
                  /\ direction_bit' = (travel_distance > 0)
                  /\ steps_to_move' = BlockStepCount
             ELSE /\ current_block' = NULL
                  /\ UNCHANGED <<times_taken, moving, direction_bit, steps_to_move>>
          /\ mode = OFF
                => UNCHANGED <<current_position, current_angle, unstepped_distance>>]_vars

\* a block begun with a backward travel that the carry shortens by a step
C26_Witness ==
    /\ event = "on_block_begin" /\ enabled /\ mode # OFF
    /\ current_block # NULL /\ Outstanding = 1
    /\ moving /\ ~direction_bit
    /\ steps_to_move # Abs(Floor(steps_per_millimeter * travel_distance))

(***************************************************************************)
(* C27.  In a SOLO move the speed programmed at block-begin is             *)
(* min(target, rate_increase), with target = floor(feed_rate *             *)
(* steps_per_millimeter); a tick on an enabled axis in mode SOLO with a    *)
(* block claimed and the stepper moving sets the speed to                  *)
(* min(target, current + rate_increase) when current < target, and any     *)
(* other tick changes nothing; so, feed rate and steps per mm unchanged,   *)
(* the speed of the move never decreases and never rises above target.     *)
(***************************************************************************)
SoloTarget == (feed_rate * steps_per_millimeter) \div Scale
SoloRateIncrease == (acceleration * steps_per_millimeter) \div acceleration_ticks_per_second
InSoloMove == enabled /\ mode = SOLO /\ current_block # NULL /\ moving

C27_SoloSpeedRamp ==
    [][/\ (event' = "on_block_begin" /\ enabled /\ mode = SOLO /\ current_block' # NULL)
           => steps_per_second' = Min(SoloTarget, SoloRateIncrease) * Scale
       /\ event' = "acceleration_tick"
           => /\ UNCHANGED <<axisVars, times_taken, moving, direction_bit, steps_to_move,
                              moved_last_block, max_rate>>
              /\ IF InSoloMove /\ steps_per_second \div Scale < SoloTarget
                 THEN steps_per_second' =
                          Min(SoloTarget, steps_per_second \div Scale + SoloRateIncrease) * Scale
                 ELSE UNCHANGED steps_per_second
       /\ (/\ InSoloMove /\ InSoloMove' /\ event' # "on_block_begin"
           /\ UNCHANGED <<feed_rate, steps_per_millimeter>>)
           => /\ steps_per_second' >= steps_per_second
              /\ steps_per_second <= SoloTarget * Scale
                    => steps_per_second' <= SoloTarget * Scale]_vars

\* a tick has raised the speed of a SOLO move from its first step to target
C27_Witness ==
    /\ event = "acceleration_tick" /\ InSoloMove
    /\ steps_per_second = SoloTarget * Scale
    /\ steps_per_second > Min(SoloTarget, SoloRateIncrease) * Scale

(***************************************************************************)
(* C28.  on_speed_change changes nothing unless the axis is enabled, a     *)
(* block is claimed, mode is FOLLOW and the stepper is moving, for the     *)
(* flush (argument 0) as for a rate update: a flush that arrives while a   *)
(* SOLO move holds its claim, or after a command has changed the mode,     *)
(* releases nothing and keeps current_block.                               *)
(***************************************************************************)
C28_SpeedChangeGuard ==
    [][(/\ event' \in {"on_speed_change(0)", "on_speed_change"}
        /\ ~(enabled /\ current_block # NULL /\ mode = FOLLOW /\ moving))
       => UNCHANGED <<axisVars, stepperVars, times_taken>>]_vars

\* a flush found a SOLO move under way with its block claimed
C28_Witness ==
    /\ event = "on_speed_change(0)"
    /\ enabled /\ mode = SOLO /\ current_block # NULL /\ moving
    /\ times_taken[current_block] = 1

(***************************************************************************)
(* C29.  With stepper-finished, block-end and block-begin coming between   *)
(* the statements of on_speed_change, the guard of the handler is enough:  *)
(* the handler never goes on with a current_block that has become NULL     *)
(* since the guard, and no claim is released both by the flush and by      *)
(* stepper-finished (no block is released more often than it was taken).   *)
(***************************************************************************)
C29_GuardIsEnough ==
    /\ ~stale_use
    /\ \A b \in Blocks : times_taken[b] >= 0

(***************************************************************************)
(* C30.  do_home always returns, given that every move programmed comes to *)
(* its end or the halt is seen: each turn of the sweep adds                *)
(* RAW_SEARCH_ANGLE to current_search_angle, the sweep makes a bounded     *)
(* number of moves (at most DEGREE_OF_CYCLE / RAW_SEARCH_ANGLE + 1), and   *)
(* the wait for the one last move is left only by the return.              *)
(***************************************************************************)
C30_HomingTerminates ==
    /\ (home_pc # "idle") ~> (home_pc = "idle")
    /\ [](sweep_moves <= DEGREE_OF_CYCLE \div RAW_SEARCH_ANGLE + 1)
    /\ [][/\ (home_pc = "sweep" /\ home_pc' = "sweep_wait")
              => current_search_angle' = current_search_angle + Deg(RAW_SEARCH_ANGLE)
          /\ home_pc = "final_wait" => home_pc' \in {"final_wait", "idle"}]_vars

\* the routine has returned after the whole sweep and the last move
C30_Witness ==
    /\ event = "do_home_done" /\ home_pc = "idle"
    /\ sweep_moves = DEGREE_OF_CYCLE \div RAW_SEARCH_ANGLE + 1
    /\ home_angle > 0

(***************************************************************************)
(* C31.  For previous_angle and input angle in [0,360) the travel left by  *)
(* optimize_angle is never longer than a quarter of a turn:                *)
(* |travel_distance| <= angle_to_distance(90), for every command.          *)
(***************************************************************************)
C31_TravelWithinQuarterTurn ==
    (OptimizeRan /\ 0 <= previous_seen /\ previous_seen < Full
                 /\ 0 <= input_seen /\ input_seen < Full)
        => Abs(travel_distance) <= angle_to_distance(Deg(90))

\* a travel of a quarter of a turn exactly, backward and forward
C31_Witness ==
    /\ OptimizeRan /\ previous_seen # input_seen
    /\ Abs(previous_seen - input_seen) = Deg(270)
    /\ Abs(travel_distance) = angle_to_distance(Deg(90))

(***************************************************************************)
(* C32.  In every reachable state current_position is                      *)
(* angle_to_distance(current_angle), after any sequence of block-begins,   *)
(* G92, G28, M92 and save_state / restore_state requests.                  *)
(***************************************************************************)
AccumulatorsAgree == current_position = angle_to_distance(current_angle)

C32_AccumulatorsAgree == AccumulatorsAgree

(***************************************************************************)
(* C33.  An accepted un-retract with no Z move received since the retract  *)
(* it undoes synthesizes the opposite of the Z displacement the retract    *)
(* synthesized, so that the two sum to zero, whatever M207 did to the      *)
(* length of the Z lift in between.                                        *)
(***************************************************************************)
C33_NetZeroZ ==
    [][\A gcode \in RetractCodes :
          (/\ IsAcceptedRetract(gcode) /\ gcode.g = 11 /\ ~z_between
           /\ on_gcode_received_G(gcode))
          => lift_made + ZDisplacement(received') = 0]_vars

(***************************************************************************)
(* C34.  In a SOLO move with a positive target rate the speed programmed   *)
(* is not zero from block-begin on, and with the tick firing again and     *)
(* again it reaches target = floor(feed_rate * steps_per_millimeter) while *)
(* the move lasts, also when rate_increase floors to 0.                    *)
(***************************************************************************)
SoloMoveWithTarget == InSoloMove /\ SoloTarget > 0

C34_SoloSpeedReachesTarget ==
    /\ [](SoloMoveWithTarget => steps_per_second > 0)
    /\ SoloMoveWithTarget ~> (steps_per_second = SoloTarget * Scale \/ ~InSoloMove)

====
